---- MODULE Spec2Model ----
(***************************************************************************)
(* Model of pg-db-tools' object model (src/pg_db_tools/pg_types.py):       *)
(* document loading, lazy type resolution and the dependency orderer       *)
(* PgDatabase.to_json; and of the diff command                             *)
(* (src/pg_db_tools/commands/diff.py).                                     *)
(*                                                                         *)
(* Python objects live in `heap`, a sequence of records; an object's       *)
(* identity is its index.  No class of pg_types.py defines __eq__, so      *)
(* `==`, `in` and list.remove compare identities: indices here.            *)
(* Python strings are sequences of one-character strings, so that          *)
(* str.endswith and str.split are computed, not looked up.                 *)
(***************************************************************************)
EXTENDS Integers, Sequences, FiniteSets, TLC

VARIABLES
    heap,         \* every object constructed so far; index = identity
    contents,     \* the collections of each PgSchema object (types, tables, ...)
    schemas,      \* PgDatabase.schemas: set of <<name, schema object id>>
    objects,      \* PgDatabase.objects: sequence of object ids
    doc,          \* the object_data entries of data['objects'] not yet loaded
    loaded,       \* the objects load_object has returned so far
    pc,           \* position of the program
    to_include,   \* objects_to_include of to_json
    included,     \* objects_included of to_json
    rule,         \* which branch of the while body appended the last object
    run,          \* number of the to_json call in progress
    first,        \* objects_included of the first to_json call
    error,        \* the exception raised, if any
    ref,          \* the PgTypeRef being dereferenced: [registry, ref]
    results,      \* what the calls of PgTypeRef.dereference returned, in order
    current_file, \* diff_command: the objects of the document args.current
    target_file,  \* diff_command: the objects of the document args.target
    current_db,   \* diff_command: the database loaded from current_file
    target_db,    \* diff_command: the database loaded from target_file
    schema_items, \* diff_db: the items of target_db.schemas not yet visited
    stdout,       \* sys.stdout: the operations written so far
    call,         \* a single call under study: the function and its arguments
    returned      \* what that call returned or raised

vars == <<heap, contents, schemas, objects, doc, loaded, pc, to_include, included, rule, run,
          first, error, ref, results, current_file, target_file, current_db,
          target_db, schema_items, stdout, call, returned>>

\* the variables of a single call
callvars == <<call, returned>>

\* the variables of the diff command
diffvars ==
    <<current_file, target_file, current_db, target_db, schema_items, stdout>>

\* the variables of one database under load or in order
dbvars ==
    <<schemas, objects, doc, loaded, to_include, included, rule, run, first,
      ref, results>>

-----------------------------------------------------------------------------
(* Bounds of the model *)

\* number of non-schema objects of a database handed to the orderer
MaxObjects == 2

\* number of objects of a document
MaxDocLen == 3

\* number of type-like objects of the schema a reference is resolved in
MaxTypes == 2

\* number of times the reference is dereferenced
MaxCalls == 2

\* number of objects of each of the two documents of a diff
MaxFileLen == 3

\* the greatest tgtype analyze_type is called with
MaxTgtype == 127

\* number of tokens of the text find_dependencies is called with
MaxTokens == 4

-----------------------------------------------------------------------------
(* Strings *)

public == <<"p","u","b","l","i","c">>
pg_catalog == <<"p","g","_","c","a","t","a","l","o","g">>
information_schema ==
    <<"i","n","f","o","r","m","a","t","i","o","n","_","s","c","h","e","m","a">>
pg_toast == <<"p","g","_","t","o","a","s","t">>
pg_temp_1 == <<"p","g","_","t","e","m","p","_","1">>
pg_toast_temp_1 ==
    <<"p","g","_","t","o","a","s","t","_","t","e","m","p","_","1">>
dep_recurse == <<"d","e","p","_","r","e","c","u","r","s","e">>
shop == <<"s","h","o","p">>

DEFAULT_SCHEMA == public

SILENT_SCHEMAS == <<DEFAULT_SCHEMA, pg_catalog>>

SKIPPED_SCHEMAS ==
    <<pg_catalog, information_schema, pg_toast, pg_temp_1, pg_toast_temp_1,
      dep_recurse>>

\* x in list
InList(x, list) == \E k \in DOMAIN list : list[k] = x

Range(s) == {s[k] : k \in DOMAIN s}

\* the ascending sequence of a set of integers (one iteration order of it)
RECURSIVE SortedSeq(_)
SortedSeq(S) ==
    IF S = {} THEN <<>>
    ELSE LET m == CHOOSE x \in S : \A y \in S : x <= y
         IN  <<m>> \o SortedSeq(S \ {m})

-----------------------------------------------------------------------------
(* Values and objects *)

\* A Python value held in a reference slot: an object, a str, or None.
Obj(i) == [tag |-> "obj", id |-> i, str |-> <<>>]
StrVal(s) == [tag |-> "str", id |-> 0, str |-> s]
None == [tag |-> "none", id |-> 0, str |-> <<>>]

\* An exception: its class and its arguments; NoError when none was raised.
Exception(type, args) == [type |-> type, args |-> args]
NoError == Exception("none", <<>>)

\* no diff command runs: its variables are unbound
NoDiff ==
    /\ current_file = <<>>
    /\ target_file = <<>>
    /\ current_db = None
    /\ target_db = None
    /\ schema_items = <<>>
    /\ stdout = <<>>

\* no single call is under study
NoCall == call = None /\ returned = None

\* bool(value) of such a value
Truthy(v) == v.tag = "obj" \/ (v.tag = "str" /\ v.str # <<>>)

\* PgForeignKey.__init__ (the fields the model follows)
PgForeignKey(schema, name, ref_table) ==
    [schema |-> schema, name |-> name, ref_table |-> ref_table]

\* An object of the heap.  schema = 0: the object has no attribute `schema`.
NewObject(kind, name, schema) ==
    [kind |-> kind, name |-> name, schema |-> schema, columns |-> <<>>,
     foreign_keys |-> <<>>, inherits |-> None, membership |-> <<>>,
     dependencies |-> <<>>, arguments |-> <<>>, return_type |-> None,
     src |-> <<>>, registry |-> None]

\* the collections of a new PgSchema
EmptyContents ==
    [types |-> <<>>, enum_types |-> <<>>, composite_types |-> <<>>,
     tables |-> <<>>, functions |-> <<>>, sequences |-> <<>>, views |-> <<>>,
     foreign_keys |-> <<>>, aggregates |-> <<>>]

\* PgSchema.__init__: the schema is its own schema; `self` is its heap index
PgSchema(name, self) == NewObject("schema", name, self)

\* PgTable.__init__
PgTable(schema, name) == NewObject("table", name, schema)

\* PgRole.__init__: schema = self ("a hack because roles don't have a schema")
PgRole(name, membership, self) ==
    [NewObject("role", name, self) EXCEPT !.membership = membership]

\* PgType.__init__
PgType(schema, name) == NewObject("type", name, schema)

\* PgFunction.__init__
PgFunction(schema, name, arguments, return_type) ==
    [NewObject("function", name, schema) EXCEPT
        !.arguments = arguments, !.return_type = return_type]

\* PgView.__init__
PgView(schema, name) == NewObject("view", name, schema)

\* PgCompositeType.__init__
PgCompositeType(schema, name, columns) ==
    [NewObject("composite_type", name, schema) EXCEPT !.columns = columns]

-----------------------------------------------------------------------------
(* Dependencies and the blocking test *)

\* get_dependencies() of object i, by class
GetDependencies(h, i) ==
    CASE h[i].kind = "table" ->
             [k \in DOMAIN h[i].foreign_keys |-> h[i].foreign_keys[k].ref_table]
             \o (IF Truthy(h[i].inherits) THEN <<h[i].inherits>> ELSE <<>>)
      [] h[i].kind = "role" ->
             [k \in DOMAIN h[i].membership |-> Obj(h[i].membership[k])]
      [] OTHER -> <<>>

\* build_dependencies without the owning schema
BuildDependenciesNoSchema(h, i) == GetDependencies(h, i)

\* PgObject.build_dependencies: the new value of self.dependencies
BuildDependencies(h, i) == GetDependencies(h, i) \o <<Obj(h[i].schema)>>

\* `object in blockingobjects` for a dependency value: a str equals no object
InObjects(v, blockingobjects) ==
    v.tag = "obj" /\ InList(v.id, blockingobjects)

\* is_blocked applying the same-name exemption under both rules
IsBlockedRelaxed(h, self, blockingobjects, samenameblocks) ==
    \E k \in DOMAIN h[self].dependencies :
        LET object == h[self].dependencies[k]
        IN  /\ InObjects(object, blockingobjects)
            /\ h[object.id].name # h[self].name

\* PgObject.is_blocked
IsBlocked(h, self, blockingobjects, samenameblocks) ==
    IF samenameblocks
    THEN \E k \in DOMAIN h[self].dependencies :
            LET object == h[self].dependencies[k]
            IN  InObjects(object, blockingobjects) /\ object.id # self
    ELSE \E k \in DOMAIN h[self].dependencies :
            LET object == h[self].dependencies[k]
            IN  /\ InObjects(object, blockingobjects)
                /\ h[object.id].name # h[self].name

\* the filter applied to the object's own name instead of its schema's
NotSkippedByOwnName(h, i) == ~InList(h[i].name, SKIPPED_SCHEMAS)

\* object.schema.name not in SKIPPED_SCHEMAS
NotSkipped(h, i) == ~InList(h[h[i].schema].name, SKIPPED_SCHEMAS)

\* the list comprehension that opens to_json
RECURSIVE ObjectsToInclude(_, _)
ObjectsToInclude(h, objs) ==
    IF objs = <<>> THEN <<>>
    ELSE (IF NotSkipped(h, Head(objs)) THEN <<Head(objs)>> ELSE <<>>)
         \o ObjectsToInclude(h, Tail(objs))

\* dropping the head of the list whatever x is
RemoveHead(list, x) == Tail(list)

\* list.remove(x): the list without the first element equal to x
Remove(list, x) ==
    LET k == CHOOSE j \in DOMAIN list :
                 list[j] = x /\ \A m \in 1..(j-1) : list[m] # x
    IN  SubSeq(list, 1, k-1) \o SubSeq(list, k+1, Len(list))

\* a scan that stops at the last object that is not blocked
LastUnblocked(h, remaining, samenameblocks) ==
    LET k == CHOOSE j \in DOMAIN remaining :
                 /\ ~IsBlocked(h, remaining[j], remaining, samenameblocks)
                 /\ \A m \in (j+1)..Len(remaining) :
                        IsBlocked(h, remaining[m], remaining, samenameblocks)
    IN  remaining[k]

\* the object a `for ... if not is_blocked: ... break` scan stops at
FirstUnblocked(h, remaining, samenameblocks) ==
    LET k == CHOOSE j \in DOMAIN remaining :
                 /\ ~IsBlocked(h, remaining[j], remaining, samenameblocks)
                 /\ \A m \in 1..(j-1) :
                        IsBlocked(h, remaining[m], remaining, samenameblocks)
    IN  remaining[k]

\* the strict scan never finding an object, so that the relaxed scan runs
\* at every step
SomeUnblockedRelaxedOnly(h, remaining, samenameblocks) ==
    /\ ~samenameblocks
    /\ \E j \in DOMAIN remaining :
           ~IsBlocked(h, remaining[j], remaining, samenameblocks)

\* whether such a scan finds an object (else its for-else branch runs)
SomeUnblocked(h, remaining, samenameblocks) ==
    \E j \in DOMAIN remaining :
        ~IsBlocked(h, remaining[j], remaining, samenameblocks)

\* no last fallback: the loop spins on a cycle without placing anything
NoChoice(remaining) == {}

\* the last fallback taking any remaining object ("just take one at random")
RandomChoice(remaining) == Range(remaining)

\* the objects the last fallback may take: objects_to_include[0]
UnconditionalChoice(remaining) == {remaining[1]}

\* whether object.to_json() of an ordered object raises AttributeError:
\* PgForeignKey.to_json reads self.ref_table.name
ToJsonRaises(h, i) ==
    /\ h[i].kind = "table"
    /\ \E k \in DOMAIN h[i].foreign_keys :
           h[i].foreign_keys[k].ref_table.tag # "obj"

-----------------------------------------------------------------------------
(* PgDatabase.to_json *)

\* lines 162-165: the filter, build_dependencies on each kept object
ToJsonBegin ==
    /\ pc = "loaded"
    /\ LET kept == ObjectsToInclude(heap, objects)
       IN  /\ to_include' = kept
           /\ heap' = [i \in DOMAIN heap |->
                         IF InList(i, kept)
                         THEN [heap[i] EXCEPT
                                 !.dependencies = BuildDependencies(heap, i)]
                         ELSE heap[i]]
    /\ included' = <<>>
    /\ rule' = "none"
    /\ pc' = "order"
    /\ UNCHANGED diffvars
    /\ UNCHANGED callvars
    /\ UNCHANGED <<contents, schemas, objects, doc, loaded, run, first, error, ref, results>>

\* one iteration of `while objects_to_include:` (lines 166-183)
OrderStep ==
    /\ pc = "order"
    /\ to_include # <<>>
    /\ IF SomeUnblocked(heap, to_include, TRUE)
       THEN LET object == FirstUnblocked(heap, to_include, TRUE)
            IN  /\ included' = Append(included, object)
                /\ to_include' = Remove(to_include, object)
                /\ rule' = "strict"
       ELSE IF SomeUnblocked(heap, to_include, FALSE)
       THEN LET object == FirstUnblocked(heap, to_include, FALSE)
            IN  /\ included' = Append(included, object)
                /\ to_include' = Remove(to_include, object)
                /\ rule' = "relaxed"
       ELSE \E object \in UnconditionalChoice(to_include) :
                /\ included' = Append(included, object)
                /\ to_include' = Tail(to_include)
                /\ rule' = "unconditional"
    /\ UNCHANGED diffvars
    /\ UNCHANGED callvars
    /\ UNCHANGED <<heap, contents, schemas, objects, doc, loaded, pc, run, first, error, ref,
                   results>>

\* lines 185-190: the loop has ended, every ordered object is serialized.
\* Serializing a column dereferences its type; a placeholder PgType made on
\* the way is dropped at once and is not kept in the heap.
ToJsonReturn ==
    /\ pc = "order"
    /\ to_include = <<>>
    /\ IF \E k \in DOMAIN included : ToJsonRaises(heap, included[k])
       THEN pc' = "failed" /\ error' = Exception("AttributeError", <<>>)
       ELSE pc' = "done" /\ error' = error
    /\ UNCHANGED diffvars
    /\ UNCHANGED callvars
    /\ UNCHANGED <<heap, contents, schemas, objects, doc, loaded, to_include, included, rule,
                   run, first, ref, results>>

\* the caller calls database.to_json() a second time on the same database
ToJsonAgain ==
    /\ pc = "done"
    /\ run = 1
    /\ run' = 2
    /\ first' = included
    /\ pc' = "loaded"
    /\ UNCHANGED diffvars
    /\ UNCHANGED callvars
    /\ UNCHANGED <<heap, contents, schemas, objects, doc, loaded, to_include, included, rule,
                   error, ref, results>>

-----------------------------------------------------------------------------
(* Specification Spec: the orderer on a database of linked objects.        *)
(* The objects reference each other directly, as PgDatabase.load_from_db   *)
(* links them: a table's schema is a schema of the list, a foreign key's   *)
(* ref_table is a table, a role's memberships are roles.  They are listed  *)
(* in load_from_db's order, schemas first, or with the schemas last, as a  *)
(* caller that fills database.objects itself may list them.                *)

NameA == <<"a">>
NameB == <<"b">>
ObjectNames == {NameA, NameB}

\* heap indices of the two schema objects and of the other objects
SchemaIds == {1, 2}
ObjectIds == 3..(2 + MaxObjects)

\* the object at index i: a role with its memberships, or a table with one
\* foreign key per referenced table (PgForeignKey.load_all_from_db: ref_table
\* is the table object database.tables[ref_table_oid])
InputObject(i, kind, name, schema, refs) ==
    IF kind = "role"
    THEN PgRole(name, SortedSeq(refs), i)
    ELSE [PgTable(schema, name) EXCEPT
            !.foreign_keys =
                [k \in 1..Cardinality(refs) |->
                    PgForeignKey(Obj(schema), <<"f", "k">>,
                                 Obj(SortedSeq(refs)[k]))]]

Init ==
    \E kinds \in [ObjectIds -> {"role", "table"}],
       names \in [ObjectIds -> ObjectNames],
       owner \in [ObjectIds -> SchemaIds],
       refs \in [ObjectIds -> SUBSET ObjectIds],
       skipped \in Range(SKIPPED_SCHEMAS),
       schemasFirst \in BOOLEAN :
        /\ \A i \in ObjectIds : kinds[i] = "role" => owner[i] = 1
        /\ \A i \in ObjectIds : \A j \in refs[i] : kinds[j] = kinds[i]
        \* databases with cross-references have pg_catalog as their system
        \* schema; the other denylisted names come with unrelated objects
        /\ skipped # pg_catalog => \A i \in ObjectIds : refs[i] = {}
        /\ heap = <<PgSchema(shop, 1), PgSchema(skipped, 2)>> \o
                  [k \in 1..MaxObjects |->
                      InputObject(k + 2, kinds[k + 2], names[k + 2],
                                  owner[k + 2], refs[k + 2])]
        /\ objects = IF schemasFirst
                     THEN <<1, 2>> \o SortedSeq(ObjectIds)
                     ELSE SortedSeq(ObjectIds) \o <<1, 2>>
        /\ contents =
              [s \in SchemaIds |->
                  [EmptyContents EXCEPT
                      !.tables = SortedSeq({i \in ObjectIds :
                                    kinds[i] = "table" /\ owner[i] = s})]]
        \* load_from_db keys database.schemas by oid: the heap index here
        /\ schemas = IF schemasFirst THEN {<<i, i>> : i \in SchemaIds} ELSE {}
        /\ doc = <<>>
        /\ loaded = <<>>
        /\ pc = "loaded"
        /\ to_include = <<>>
        /\ included = <<>>
        /\ rule = "none"
        /\ run = 1
        /\ first = <<>>
        /\ error = NoError
        /\ ref = None
        /\ results = <<>>
        /\ NoDiff
        /\ NoCall

Next ==
    \/ ToJsonBegin
    \/ OrderStep
    \/ ToJsonReturn
    \/ ToJsonAgain

Spec == Init /\ [][Next]_vars

\* one to_json call
LiveNext ==
    \/ ToJsonBegin
    \/ OrderStep
    \/ ToJsonReturn

\* databases whose schema objects are listed after their contents
LiveInit == Init /\ objects[1] \notin SchemaIds

\* one to_json call under the scheduling of a sequential interpreter: a
\* statement that can run does run
LiveSpec == LiveInit /\ [][LiveNext]_vars /\ WF_vars(LiveNext)

-----------------------------------------------------------------------------
(* Properties of the orderer *)

\* the while loop of to_json has ended
LoopEnded == (pc = "order" /\ to_include = <<>>) \/ pc \in {"done", "failed"}

\* the objects the orderer works on
FilteredSet == Range(ObjectsToInclude(heap, objects))

\* D is a dependency of O other than O itself: a member of get_dependencies()
\* or the owning schema
DependsOn(o, d) ==
    /\ d # o
    /\ \/ d = heap[o].schema
       \/ \E k \in DOMAIN GetDependencies(heap, o) :
              GetDependencies(heap, o)[k] = Obj(d)

\* the objects of S reachable from o along at most n dependency edges in S
RECURSIVE Reachable(_, _, _)
Reachable(S, o, n) ==
    IF n = 0 THEN {}
    ELSE LET direct == {d \in S : DependsOn(o, d)}
         IN  direct \cup UNION {Reachable(S, d, n - 1) : d \in direct}

Acyclic(S) == \A o \in S : o \notin Reachable(S, o, Cardinality(S))

\* index of object o in the sequence out
IndexOf(out, o) == CHOOSE k \in DOMAIN out : out[k] = o

\* number of occurrences of x in list
Count(list, x) == Cardinality({k \in DOMAIN list : list[k] = x})

\* C1: when the dependency relation of the filtered object set (members of
\* get_dependencies() plus the owning schema, self-edges ignored) has no
\* cycle, every dependency D of every object O stands before O in the output.
C1_AcyclicOrder ==
    (LoopEnded /\ Acyclic(FilteredSet)) =>
        \A o \in FilteredSet : \A d \in FilteredSet :
            DependsOn(o, d) =>
                /\ InList(o, included) /\ InList(d, included)
                /\ IndexOf(included, d) < IndexOf(included, o)

\* an acyclic database was ordered in which some object is listed before
\* one of its dependencies, so the orderer had to move it
C1_Witness ==
    /\ pc = "done"
    /\ Acyclic(FilteredSet)
    /\ \E o \in FilteredSet : \E d \in FilteredSet :
          /\ DependsOn(o, d)
          /\ heap[d].kind # "schema"
          /\ IndexOf(objects, o) < IndexOf(objects, d)
    /\ \E o \in FilteredSet : \E d \in FilteredSet :
          /\ d = heap[o].schema /\ d # o
          /\ IndexOf(objects, o) < IndexOf(objects, d)

\* C2: for every input the output holds each object of database.objects
\* that passes the schema filter exactly once, and nothing else.
C2_Permutation ==
    LoopEnded =>
        \A i \in DOMAIN heap :
            Count(included, i) = Count(ObjectsToInclude(heap, objects), i)

\* a cyclic database was ordered, with some object filtered out
C2_Witness ==
    /\ pc = "done"
    /\ ~Acyclic(FilteredSet)
    /\ Len(included) >= 3
    /\ Len(included) < Len(objects)

Denylist ==
    {pg_catalog, information_schema, pg_toast, pg_temp_1, pg_toast_temp_1,
     dep_recurse}

\* C7: once ordering has begun, no object whose owning schema is named in
\* the denylist is among the remaining or the ordered objects, so none is
\* in the output and none can block another object.
C7_SkippedSchemas ==
    pc \in {"order", "done", "failed"} =>
        \A i \in Range(to_include) \cup Range(included) :
            heap[heap[i].schema].name \notin Denylist

\* to_json returned an output holding a table that references a table of
\* pg_catalog listed before it
C7_Witness ==
    /\ pc = "done"
    /\ \E o \in Range(included) : \E d \in DOMAIN heap :
          /\ DependsOn(o, d)
          /\ heap[d].kind = "table"
          /\ heap[heap[d].schema].name \in Denylist
          /\ IndexOf(objects, d) < IndexOf(objects, o)

\* o is unblocked under the strict rule: none of its dependencies other
\* than itself is among the remaining objects
StrictUnblocked(o, remaining) ==
    \A d \in Range(remaining) : ~DependsOn(o, d)

\* o is unblocked under the relaxed rule: each of its remaining dependencies
\* bears its own name
RelaxedUnblocked(o, remaining) ==
    \A d \in Range(remaining) : DependsOn(o, d) => heap[d].name = heap[o].name

\* the step appends an object to the output
Appends == pc = "order" /\ Len(included') = Len(included) + 1

\* C26: at each step at which some remaining object is unblocked under the
\* strict rule, the object appended is the first such object of the
\* remaining list.
C26_FirstUnblocked ==
    [][(Appends /\ \E o \in Range(to_include) :
                      StrictUnblocked(o, to_include)) =>
           \E k \in DOMAIN to_include :
               /\ included' = Append(included, to_include[k])
               /\ StrictUnblocked(to_include[k], to_include)
               /\ \A m \in 1..(k-1) :
                      ~StrictUnblocked(to_include[m], to_include)]_vars

\* the first object placed was found by the strict scan behind a blocked
\* head of the list and ahead of another unblocked object
C26_Witness ==
    /\ pc = "order" /\ rule = "strict" /\ Len(included) = 1
    /\ LET kept == ObjectsToInclude(heap, objects)
       IN  /\ included[1] # kept[1]
           /\ \E k \in DOMAIN kept :
                 /\ IndexOf(kept, included[1]) < k
                 /\ StrictUnblocked(kept[k], kept)
                 /\ heap[kept[k]].name # heap[included[1]].name

\* C27: a step applies the relaxed rule only when no remaining object is
\* unblocked under the strict rule, and takes the first remaining object
\* unconditionally only when none is unblocked under the relaxed rule.
C27_FallbackOrder ==
    [][Appends =>
           /\ rule' = "relaxed" =>
                 \A o \in Range(to_include) : ~StrictUnblocked(o, to_include)
           /\ rule' = "unconditional" =>
                 \A o \in Range(to_include) :
                     ~RelaxedUnblocked(o, to_include)]_vars

\* no object was unblocked under the strict rule, and the relaxed rule
\* placed one ahead of a dependency of its own name
C27_Witness ==
    /\ pc = "order" /\ rule = "relaxed" /\ included # <<>>
    /\ \E d \in Range(to_include) :
          /\ DependsOn(included[Len(included)], d)
          /\ heap[d].name = heap[included[Len(included)]].name

\* C28: an object that the strict rule appended has no dependency other than
\* itself among the objects still to come, and one that the relaxed rule
\* appended has only dependencies of its own name among them; so an object
\* that precedes a dependency in the output was appended by a fallback.
C28_OnlyFallbacksPrecede ==
    (pc = "order" /\ included # <<>>) =>
        LET o == included[Len(included)]
        IN  /\ rule = "strict" => StrictUnblocked(o, to_include)
            /\ rule = "relaxed" => RelaxedUnblocked(o, to_include)

\* the strict rule placed the first object, and the unconditional choice
\* then placed one ahead of a dependency of another name
C28_Witness ==
    /\ pc = "order" /\ rule = "unconditional" /\ Len(included) >= 2
    /\ StrictUnblocked(included[1], ObjectsToInclude(heap, objects))
    /\ \E d \in Range(to_include) :
          /\ DependsOn(included[Len(included)], d)
          /\ heap[d].name # heap[included[Len(included)]].name

-----------------------------------------------------------------------------
(* Loading a document: load, load_object and the loaders of each kind.     *)
(* A loader works on db = [heap, contents, schemas] and yields the new db  *)
(* with its result, or the exception it raises.                            *)

\* ch in s
Contains(s, ch) == \E k \in DOMAIN s : s[k] = ch

\* s.split(ch, 1) for a string s that contains ch
SplitOnce(s, ch) ==
    LET k == CHOOSE j \in DOMAIN s : s[j] = ch /\ \A m \in 1..(j-1) : s[m] # ch
    IN  <<SubSeq(s, 1, k - 1), SubSeq(s, k + 1, Len(s))>>

\* a call that returned `result`, and one that raised `exc`
Returned(db, result) == [db |-> db, result |-> result, raised |-> NoError]
Raised(db, exc) == [db |-> db, result |-> None, raised |-> exc]

\* name in self.schemas, and self.schemas.get(name)
HasSchema(db, name) == \E p \in db.schemas : p[1] = name
SchemaNamed(db, name) == (CHOOSE p \in db.schemas : p[1] = name)[2]

\* PgDatabase.register_schema
RegisterSchema(db, name) ==
    IF HasSchema(db, name)
    THEN Returned(db, SchemaNamed(db, name))
    ELSE LET id == Len(db.heap) + 1
         IN  Returned([heap |-> Append(db.heap, PgSchema(name, id)),
                       contents |-> db.contents @@ (id :> EmptyContents),
                       schemas |-> db.schemas \cup {<<name, id>>}],
                      id)

\* PgTypeRef.__init__
PgTypeRef(registry, typename) == [registry |-> registry, ref |-> typename]

\* PgDatabase.get_type_ref
GetTypeRef(db, typestring) ==
    IF Contains(typestring, ".")
    THEN LET parts == SplitOnce(typestring, ".")
             r == RegisterSchema(db, parts[1])
         IN  Returned(r.db, PgTypeRef(Obj(r.result), parts[2]))
    ELSE LET r == RegisterSchema(db, DEFAULT_SCHEMA)
         IN  Returned(r.db, PgTypeRef(Obj(r.result), typestring))

\* PgColumn.load
PgColumnLoad(db, data) ==
    LET r == GetTypeRef(db, data.data_type)
    IN  Returned(r.db, [name |-> data.name, data_type |-> r.result])

\* [PgColumn.load(database, column_data) for column_data in data['columns']]
RECURSIVE LoadColumns(_, _)
LoadColumns(db, columns) ==
    IF columns = <<>> THEN Returned(db, <<>>)
    ELSE LET r == PgColumnLoad(db, Head(columns))
             rest == LoadColumns(r.db, Tail(columns))
         IN  Returned(rest.db, <<r.result>> \o rest.result)

\* PgForeignKey.load: schema and ref_table are the strings of the document
PgForeignKeyLoad(data) ==
    PgForeignKey(StrVal(data.schema), data.name, StrVal(data.table))

\* PgTableRef.__init__: schema = registry, name = ref
PgTableRef(registry, name) == NewObject("tableref", name, registry)

\* PgSchema.load: a new PgSchema that register_schema never sees
PgSchemaLoad(db, data) ==
    LET id == Len(db.heap) + 1
    IN  Returned([heap |-> Append(db.heap, PgSchema(data.name, id)),
                  contents |-> db.contents @@ (id :> EmptyContents),
                  schemas |-> db.schemas],
                 id)

\* PgTable.load.  description, primary_key, unique, check, exclude and
\* indexes are plain attribute copies and are not followed.
PgTableLoad(db, data) ==
    LET r1 == RegisterSchema(db, IF data.schema = None THEN DEFAULT_SCHEMA
                                 ELSE data.schema.str)
        schema == r1.result
        r2 == LoadColumns(r1.db, data.columns)
        id == Len(r2.db.heap) + 1
        table == [PgTable(schema, data.name) EXCEPT
                     !.columns = r2.result,
                     !.foreign_keys =
                         [k \in DOMAIN data.foreign_keys |->
                             PgForeignKeyLoad(data.foreign_keys[k])]]
        \* schema.tables.append(table)
        Appended(h) ==
            [heap |-> h,
             contents |-> [r2.db.contents EXCEPT
                              ![schema].tables = Append(@, id)],
             schemas |-> r2.db.schemas]
    IN  IF data.inherits = None
        THEN Returned(Appended(Append(r2.db.heap, table)), id)
        ELSE IF ~HasSchema(r2.db, data.inherits.schema)
        \* database.schemas[data['inherits']['schema']]
        THEN Raised(r2.db, Exception("KeyError", <<data.inherits.schema>>))
        ELSE LET inherits_schema == SchemaNamed(r2.db, data.inherits.schema)
                 refid == id + 1
                 child == [table EXCEPT !.inherits = Obj(refid)]
             IN  Returned(
                     Appended(r2.db.heap \o
                                 <<child,
                                   PgTableRef(inherits_schema,
                                              data.inherits.name)>>),
                     id)

\* a PgTypeRef as an object of its own: what `!=` of two references compares
TypeRefObject(typeref) ==
    [NewObject("typeref", typeref.ref, 0) EXCEPT !.registry = typeref.registry]

\* [PgArgument.from_json(argument) for argument in data['arguments']]: each
\* argument gets a new PgTypeRef(None, data['data_type'])
RECURSIVE LoadArguments(_, _)
LoadArguments(db, arguments) ==
    IF arguments = <<>> THEN Returned(db, <<>>)
    ELSE LET id == Len(db.heap) + 1
             typeref == TypeRefObject(PgTypeRef(None, Head(arguments)))
             rest == LoadArguments([db EXCEPT !.heap = Append(@, typeref)],
                                   Tail(arguments))
         IN  Returned(rest.db, <<[data_type |-> Obj(id)]>> \o rest.result)

\* PgFunction.load.  language, description, returns_set, volatility and
\* strict are plain attribute copies and are not followed.
PgFunctionLoad(db, data) ==
    LET r1 == RegisterSchema(db, data.schema.str)
        schema == r1.result
        r2 == LoadArguments(r1.db, data.arguments)
        r3 == GetTypeRef(r2.db, data.return_type)
        return_type == Len(r3.db.heap) + 1
        id == return_type + 1
        function == [PgFunction(schema, data.name, r2.result, Obj(return_type))
                        EXCEPT !.src = data.source]
    IN  Returned([heap |-> r3.db.heap
                              \o <<TypeRefObject(r3.result), function>>,
                  contents |-> [r3.db.contents EXCEPT
                                   ![schema].functions = Append(@, id)],
                  schemas |-> r3.db.schemas],
                 id)

\* PgView.load
PgViewLoad(db, data) ==
    LET r == RegisterSchema(db, data.schema.str)
        id == Len(r.db.heap) + 1
    IN  Returned([heap |-> Append(r.db.heap, PgView(r.result, data.name)),
                  contents |-> [r.db.contents EXCEPT
                                   ![r.result].views = Append(@, id)],
                  schemas |-> r.db.schemas],
                 id)

\* PgCompositeType.load
PgCompositeTypeLoad(db, data) ==
    LET r1 == RegisterSchema(db, IF data.schema = None THEN DEFAULT_SCHEMA
                                 ELSE data.schema.str)
        r2 == LoadColumns(r1.db, data.columns)
        id == Len(r2.db.heap) + 1
    IN  Returned([heap |-> Append(r2.db.heap,
                                  PgCompositeType(r1.result, data.name,
                                                  r2.result)),
                  contents |-> [r2.db.contents EXCEPT
                                   ![r1.result].composite_types = Append(@, id)],
                  schemas |-> r2.db.schemas],
                 id)

\* PgRole.known_roles, a dict of the class: it lives as long as the process
\* does, as the heap, and PgRole.load alone assigns it, so that each name
\* maps to the role PgRole.load made last under that name
known_roles(h) ==
    {<<h[i].name, i>> : i \in
        {j \in DOMAIN h :
            /\ h[j].kind = "role"
            /\ \A k \in DOMAIN h :
                  (k > j /\ h[k].kind = "role") => h[k].name # h[j].name}}

\* PgRole.load: known_roles[membership] raises KeyError for a name no role
\* was loaded under; the other attributes are plain copies
PgRoleLoad(db, data) ==
    LET known == known_roles(db.heap)
        Known(name) == \E p \in known : p[1] = name
        id == Len(db.heap) + 1
        roles == [k \in DOMAIN data.memberships |->
                     (CHOOSE p \in known : p[1] = data.memberships[k])[2]]
    IN  IF \E k \in DOMAIN data.memberships : ~Known(data.memberships[k])
        THEN Raised(db, Exception("KeyError",
                 <<data.memberships[
                     CHOOSE k \in DOMAIN data.memberships :
                        /\ ~Known(data.memberships[k])
                        /\ \A m \in 1..(k-1) : Known(data.memberships[m])]>>))
        ELSE Returned([db EXCEPT
                          !.heap = Append(@, PgRole(data.name, roles, id))],
                      id)

\* PgSchema.objects, c being the collections of the schema
SchemaObjects(c) ==
    c.types \o c.enum_types \o c.composite_types \o c.tables \o c.views
    \o c.aggregates \o c.functions \o c.sequences

\* PgSchema.get: the first object of that name, or None
Get(db, self, name) ==
    LET objs == SchemaObjects(db.contents[self])
        Named(k) == db.heap[objs[k]].name = name
    IN  IF \E k \in DOMAIN objs : Named(k)
        THEN Obj(objs[CHOOSE j \in DOMAIN objs :
                          Named(j) /\ \A m \in 1..(j-1) : ~Named(m)])
        ELSE None

\* PgTableRef.dereference: self.registry.get(self.ref)
TableRefDereference(db, self) ==
    Get(db, db.heap[self].schema, db.heap[self].name)

\* the keys of object_loaders
object_loaders ==
    {"schema", "table", "function", "view", "composite_type", "enum_type",
     "aggregate", "sequence", "role", "trigger", "cast", "setting", "row"}

\* raise Exception('Unsupported object type: {}'.format(object_type))
UnsupportedObjectType(object_type) ==
    Exception("Exception", <<"Unsupported object type: {}", object_type>>)

\* the handler of load_object: `except IndexError` turns an IndexError of
\* the call into the unsupported-kind exception and lets every other pass
ExceptIndexError(r, object_type) ==
    IF r.raised.type = "IndexError"
    THEN Raised(r.db, UnsupportedObjectType(object_type))
    ELSE r

\* load_object: object_loaders[object_type] raises KeyError for a kind that
\* is no key, which the handler lets through
load_object(db, object_data) ==
    ExceptIndexError(
        CASE object_data.kind \notin object_loaders ->
                 Raised(db, Exception("KeyError", <<object_data.kind>>))
          [] object_data.kind = "schema" -> PgSchemaLoad(db, object_data)
          [] object_data.kind = "table" -> PgTableLoad(db, object_data)
          [] object_data.kind = "function" -> PgFunctionLoad(db, object_data)
          [] object_data.kind = "view" -> PgViewLoad(db, object_data)
          [] object_data.kind = "composite_type" ->
                 PgCompositeTypeLoad(db, object_data)
          [] object_data.kind = "role" -> PgRoleLoad(db, object_data),
        object_data.kind)

\* one element of the list comprehension of load / PgDatabase.load; when
\* load_object raises, the object that raised stays at the head of doc
LoadObject ==
    /\ pc = "load"
    /\ doc # <<>>
    /\ LET Then(r) ==
               /\ heap' = r.db.heap
               /\ contents' = r.db.contents
               /\ schemas' = r.db.schemas
               /\ IF r.raised = NoError
                  THEN /\ loaded' = Append(loaded, r.result)
                       /\ pc' = pc
                       /\ error' = error
                       /\ doc' = Tail(doc)
                  ELSE /\ loaded' = loaded
                       /\ pc' = "failed"
                       /\ error' = r.raised
                       /\ doc' = doc
       IN  Then(load_object([heap |-> heap, contents |-> contents,
                             schemas |-> schemas], Head(doc)))
    /\ UNCHANGED diffvars
    /\ UNCHANGED callvars
    /\ UNCHANGED <<objects, to_include, included, rule, run, first, ref,
                   results>>

\* the comprehension has ended: database.objects is assigned, load returns
LoadReturn ==
    /\ pc = "load"
    /\ doc = <<>>
    /\ objects' = loaded
    /\ pc' = "loaded"
    /\ UNCHANGED diffvars
    /\ UNCHANGED callvars
    /\ UNCHANGED <<heap, contents, schemas, doc, loaded, to_include, included,
                   rule, run, first, error, ref, results>>

-----------------------------------------------------------------------------
(* Specification SpecLoad: a document is loaded, then ordered by to_json.  *)

\* the object_data of a schema, of a table and of another kind
SchemaData(name) ==
    [kind |-> "schema", name |-> name, schema |-> None, columns |-> <<>>,
     foreign_keys |-> <<>>, inherits |-> None]

TableData(schema, name, columns, foreign_keys, inherits) ==
    [kind |-> "table", name |-> name, schema |-> schema, columns |-> columns,
     foreign_keys |-> foreign_keys, inherits |-> inherits]

OtherData(kind, name) ==
    [kind |-> kind, name |-> name, schema |-> None, columns |-> <<>>,
     foreign_keys |-> <<>>, inherits |-> None]

\* a foreign key of the document: name, references.table.schema and .name
ForeignKeyData(schema, table) ==
    [name |-> <<"f", "k">>, schema |-> schema, table |-> table]

ColumnData(data_type) == [name |-> <<"c">>, data_type |-> data_type]

TableRefData(schema, name) ==
    [tag |-> "ref", id |-> 0, str |-> <<>>, schema |-> schema, name |-> name]

\* the objects a document is made of
DocMenu ==
    {SchemaData(n) : n \in {shop, pg_toast}}
    \cup {TableData(sch, n, <<>>, fks, None) :
            sch \in {StrVal(shop), None}, n \in ObjectNames,
            fks \in {<<>>, <<ForeignKeyData(shop, NameA)>>}}
    \cup {TableData(StrVal(shop), NameB, <<ColumnData(t)>>, <<>>, None) :
            t \in {<<"i", "n", "t">>, <<"s", "h", "o", "p", ".", "t">>}}
    \cup {TableData(sch, NameB, <<>>, <<>>, TableRefData(shop, NameA)) :
            sch \in {StrVal(shop), None}}
    \cup {TableData(StrVal(pg_toast), NameA, <<>>, <<>>, None),
          OtherData("procedure", NameA), OtherData("domain", NameA)}

\* the sequences over S of length at most n
RECURSIVE SeqsUpTo(_, _)
SeqsUpTo(S, n) ==
    IF n = 0 THEN {<<>>}
    ELSE LET shorter == SeqsUpTo(S, n - 1)
         IN  shorter \cup {Append(d, x) : d \in shorter, x \in S}

\* load: a fresh PgDatabase and the document's objects
InitLoad ==
    /\ doc \in SeqsUpTo(DocMenu, MaxDocLen)
    /\ heap = <<>>
    /\ contents = <<>>
    /\ schemas = {}
    /\ objects = <<>>
    /\ loaded = <<>>
    /\ pc = "load"
    /\ to_include = <<>>
    /\ included = <<>>
    /\ rule = "none"
    /\ run = 1
    /\ first = <<>>
    /\ error = NoError
    /\ ref = None
    /\ results = <<>>
    /\ NoDiff
    /\ NoCall

NextLoad ==
    \/ LoadObject
    \/ LoadReturn
    \/ ToJsonBegin
    \/ OrderStep
    \/ ToJsonReturn

SpecLoad == InitLoad /\ [][NextLoad]_vars

-----------------------------------------------------------------------------
(* Properties of the order of a loaded document *)

\* foreign key fk names table a as its target
References(fk, a) ==
    \/ fk.ref_table = Obj(a)
    \/ /\ fk.ref_table.tag = "str" /\ fk.ref_table.str = heap[a].name
       /\ fk.schema.tag = "str" /\ fk.schema.str = heap[heap[a].schema].name

\* C5: in the ordered output of a loaded document every schema object
\* stands before every object of the schema of that name, whatever the
\* order of the document.
C5_SchemaBeforeContents ==
    LoopEnded =>
        \A s \in Range(included) : \A o \in Range(included) :
            ( /\ heap[s].kind = "schema"
              /\ heap[o].kind # "schema"
              /\ heap[heap[o].schema].name = heap[s].name )
            => IndexOf(included, s) < IndexOf(included, o)

\* C6: when table b of a loaded document has a foreign key that references
\* table a of the same document, a stands before b in the ordered output.
C6_ForeignKeyTargetFirst ==
    LoopEnded =>
        \A a \in Range(included) : \A b \in Range(included) :
            ( /\ heap[a].kind = "table" /\ heap[b].kind = "table"
              /\ heap[a].name # heap[b].name
              /\ \E k \in DOMAIN heap[b].foreign_keys :
                     References(heap[b].foreign_keys[k], a) )
            => IndexOf(included, a) < IndexOf(included, b)

\* the load stopped at an object of the document, the head of doc
LoadFailed == pc = "failed" /\ doc # <<>>

\* the kinds the document format lists
DocumentKinds ==
    {"schema", "table", "function", "procedure", "view", "composite_type",
     "enum_type", "aggregate", "sequence", "role", "trigger", "cast",
     "setting", "row", "operator"}

\* C11: a load that stops at an object whose kind is none of the kinds of
\* the document format has raised the unsupported-kind error that names the
\* kind, and a load never raises that error for a kind of the format.
C11_UnsupportedKind ==
    LoadFailed =>
        LET kind == Head(doc).kind
        IN  (kind \notin DocumentKinds) = (error = UnsupportedObjectType(kind))

\* the schema objects reachable from object i: the object itself when it
\* is a schema, its owning schema, the schema of its inheritance parent and
\* the registries of the types of its columns
SchemasReachable(i) ==
    {heap[i].schema}
    \cup (IF heap[i].inherits = None THEN {}
          ELSE {heap[heap[i].inherits.id].schema})
    \cup {heap[i].columns[k].data_type.registry.id : k \in DOMAIN heap[i].columns}

\* C12: at every point of a load, database.schemas holds exactly one entry
\* for the schema name of each loaded table, objects loaded under one schema
\* name share one schema object, and no two schema objects of one name are
\* reachable from the loaded objects.
C12_OneSchemaPerName ==
    /\ \A i \in Range(loaded) :
          heap[i].kind # "schema" =>
              Cardinality({p \in schemas : p[1] = heap[heap[i].schema].name}) = 1
    /\ \A i \in Range(loaded) : \A j \in Range(loaded) :
          \A s \in SchemasReachable(i) : \A t \in SchemasReachable(j) :
              heap[s].name = heap[t].name => s = t

\* object_data d of the document declares the table that `inherits` names
DeclaresParent(d, inherits) ==
    /\ d.kind = "table"
    /\ d.name = inherits.name
    /\ (IF d.schema = None THEN DEFAULT_SCHEMA ELSE d.schema.str)
           = inherits.schema

\* C20: a load never stops at a table that inherits from a table declared
\* later in the document, and after the load the inheritance parent of a
\* table loaded before its parent dereferences to a table of that name in
\* the schema of that name.
C20_ForwardInherits ==
    /\ LoadFailed =>
          ~ /\ Head(doc).kind = "table"
            /\ Head(doc).inherits # None
            /\ \E k \in 2..Len(doc) : DeclaresParent(doc[k], Head(doc).inherits)
    /\ (pc # "load" /\ ~LoadFailed) =>
          \A i \in Range(objects) :
              ( /\ heap[i].kind = "table"
                /\ heap[i].inherits # None
                /\ \E j \in Range(objects) :
                      /\ j > i
                      /\ heap[j].kind = "table"
                      /\ heap[j].name = heap[heap[i].inherits.id].name
                      /\ heap[heap[j].schema].name
                            = heap[heap[heap[i].inherits.id].schema].name )
              => LET parent == TableRefDereference(
                                   [heap |-> heap, contents |-> contents,
                                    schemas |-> schemas], heap[i].inherits.id)
                 IN  /\ parent # None
                     /\ heap[parent.id].kind = "table"
                     /\ heap[parent.id].name = heap[heap[i].inherits.id].name
                     /\ heap[heap[parent.id].schema].name
                           = heap[heap[heap[i].inherits.id].schema].name

-----------------------------------------------------------------------------
(* Type resolution: PgSchema.get_type and PgTypeRef.dereference *)

\* a substring test in place of the suffix test
HasSubstring(s, suffix) ==
    \E k \in 1..(Len(s) - Len(suffix) + 1) :
        SubSeq(s, k, k + Len(suffix) - 1) = suffix

\* s.endswith(suffix)
EndsWith(s, suffix) ==
    /\ Len(s) >= Len(suffix)
    /\ SubSeq(s, Len(s) - Len(suffix) + 1, Len(s)) = suffix

\* the search list with tables and views ahead of the types
TablesFirst(c) ==
    c.tables \o c.views \o c.types \o c.enum_types \o c.composite_types
    \o c.aggregates

\* the list get_type searches, c being the collections of the schema
TypeCandidates(c) ==
    c.types \o c.enum_types \o c.composite_types \o c.tables \o c.views
    \o c.aggregates

\* PgSchema.get_type
GetType(db, self, typename) ==
    LET candidates == TypeCandidates(db.contents[self])
        Matches(k) == db.heap[candidates[k]].name = typename
    IN  IF \E k \in DOMAIN candidates : Matches(k)
        THEN LET k == CHOOSE j \in DOMAIN candidates :
                          Matches(j) /\ \A m \in 1..(j-1) : ~Matches(m)
             IN  Returned(db, Obj(candidates[k]))
        ELSE IF \/ InList(db.heap[self].name, SILENT_SCHEMAS)
                \/ EndsWith(typename, <<"[", "]">>)
        THEN Returned([db EXCEPT !.heap = Append(@, PgType(self, typename))],
                      Obj(Len(db.heap) + 1))
        ELSE Raised(db, Exception("KeyError",
                        <<"Type not defined in schema {}: {}",
                          db.heap[self].name, typename>>))

\* PgTypeRef.dereference.  A registry that is None has neither get_type nor
\* get: the AttributeError of the first is caught, that of the second is not.
Dereference(db, typeref) ==
    IF typeref.registry = None
    THEN Raised(db, Exception("AttributeError", <<>>))
    ELSE GetType(db, typeref.registry.id, typeref.ref)

\* one call of ref.dereference()
DereferenceCall ==
    /\ pc = "resolve"
    /\ Len(results) < MaxCalls
    /\ LET r == Dereference([heap |-> heap, contents |-> contents,
                             schemas |-> schemas], ref)
       IN  /\ heap' = r.db.heap
           /\ contents' = r.db.contents
           /\ schemas' = r.db.schemas
           /\ results' = Append(results,
                                [result |-> r.result, raised |-> r.raised])
    /\ UNCHANGED diffvars
    /\ UNCHANGED callvars
    /\ UNCHANGED <<objects, doc, loaded, pc, to_include, included, rule, run,
                   first, error, ref>>

-----------------------------------------------------------------------------
(* Specification SpecType: a reference is dereferenced again and again in  *)
(* a schema whose collections hold up to MaxTypes objects, as              *)
(* PgDatabase.load_from_db fills them.                                     *)

\* the collections get_type looks at, and the class of their members
Collections ==
    {"types", "enum_types", "composite_types", "tables", "views", "aggregates"}

KindOf(collection) ==
    CASE collection = "types" -> "type"
      [] collection = "enum_types" -> "enum_type"
      [] collection = "composite_types" -> "composite_type"
      [] collection = "tables" -> "table"
      [] collection = "views" -> "view"
      [] collection = "aggregates" -> "aggregate"

TypeName == <<"t">>
ArrayName == <<"t", "[", "]">>

\* names of declared objects, and identifiers of references
DeclaredNames == {TypeName, ArrayName}
ReferenceNames ==
    {TypeName, ArrayName, <<"u">>, <<"[", "]", "t">>, <<"t", "]">>}

InitType ==
    \E n \in 0..MaxTypes :
    \E names \in [2..(n + 1) -> DeclaredNames],
       place \in [2..(n + 1) -> Collections],
       schemaname \in {public, pg_catalog, shop} :
        /\ heap = <<PgSchema(schemaname, 1)>> \o
                  [k \in 1..n |-> NewObject(KindOf(place[k + 1]),
                                            names[k + 1], 1)]
        /\ contents =
              (1 :> [c \in DOMAIN EmptyContents |->
                        SortedSeq({i \in 2..(n + 1) : place[i] = c})])
        /\ schemas = {<<schemaname, 1>>}
        /\ ref \in {PgTypeRef(registry, name) :
                       registry \in {Obj(1), None}, name \in ReferenceNames}
        /\ objects = <<>>
        /\ doc = <<>>
        /\ loaded = <<>>
        /\ pc = "resolve"
        /\ to_include = <<>>
        /\ included = <<>>
        /\ rule = "none"
        /\ run = 1
        /\ first = <<>>
        /\ error = NoError
        /\ results = <<>>
        /\ NoDiff
        /\ NoCall

NextType == DereferenceCall

SpecType == InitType /\ [][NextType]_vars

-----------------------------------------------------------------------------
(* Properties of type resolution *)

\* call k returned a value
ReturnedAt(k) == results[k].raised = NoError

\* the collections of the schema in priority order
Priority(c) ==
    <<c.types, c.enum_types, c.composite_types, c.tables, c.views,
      c.aggregates>>

\* the schema of the reference holds an object with the reference's name
Declared ==
    /\ ref.registry # None
    /\ \E p \in 1..6 :
          \E i \in Range(Priority(contents[ref.registry.id])[p]) :
              heap[i].name = ref.ref

\* C8: two calls of dereference on one PgTypeRef that both return, return
\* the identical object.
C8_SameObject ==
    pc = "resolve" =>
        \A j \in DOMAIN results : \A k \in DOMAIN results :
            (ReturnedAt(j) /\ ReturnedAt(k)) =>
                results[j].result = results[k].result

\* C9: get_type returns an object of the earliest collection, in the order
\* types, enum_types, composite_types, tables, views, aggregates, that holds
\* an object of the name, and the first such object of that collection.
C9_Priority ==
    (pc = "resolve" /\ Declared) =>
        \A k \in DOMAIN results :
            LET lists == Priority(contents[ref.registry.id])
                Named(p) == {j \in DOMAIN lists[p] :
                                heap[lists[p][j]].name = ref.ref}
                p == CHOOSE q \in 1..6 :
                         Named(q) # {} /\ \A m \in 1..(q - 1) : Named(m) = {}
                j == CHOOSE x \in Named(p) : \A y \in Named(p) : x <= y
            IN  /\ ReturnedAt(k)
                /\ results[k].result = Obj(lists[p][j])

\* a name held by a table created before the type of the same name: the
\* type is returned
C9_Witness ==
    /\ pc = "resolve"
    /\ results # <<>>
    /\ ReturnedAt(1)
    /\ \E t \in Range(contents[1].tables) :
          /\ heap[t].name = ref.ref
          /\ results[1].result.id > t
          /\ results[1].result.id \in
                 Range(contents[1].enum_types) \cup
                 Range(contents[1].composite_types)

\* the identifier ends with the two characters []
IsArrayIdentifier(name) ==
    Len(name) >= 2 /\ name[Len(name) - 1] = "[" /\ name[Len(name)] = "]"

\* C10: when no object of the schema has the identifier as its name, the
\* call returns a new PgType of that name in that schema if the schema is
\* public or pg_catalog or the identifier ends with [], and otherwise raises
\* the error that names the schema and the identifier.
C10_PlaceholderOrError ==
    (pc = "resolve" /\ ref.registry # None /\ ~Declared) =>
        \A k \in DOMAIN results :
            LET schema == ref.registry.id
                r == results[k]
            IN  IF \/ heap[schema].name \in {public, pg_catalog}
                   \/ IsArrayIdentifier(ref.ref)
                THEN /\ r.raised = NoError
                     /\ r.result.tag = "obj"
                     /\ heap[r.result.id] = PgType(schema, ref.ref)
                     /\ \A p \in 1..6 :
                           r.result.id \notin Range(Priority(contents[schema])[p])
                ELSE /\ r.raised.type = "KeyError"
                     /\ r.raised.args[2] = heap[schema].name
                     /\ r.raised.args[3] = ref.ref
                     /\ Len(heap) = Cardinality(
                            UNION {Range(Priority(contents[schema])[p]) :
                                       p \in 1..6}) + 1

\* the error was raised in schema shop, which holds an object of another
\* name, for an identifier with brackets that are not its suffix
C10_Witness ==
    /\ pc = "resolve"
    /\ Len(results) >= 2
    /\ results[2].raised.type = "KeyError"
    /\ heap[1].name = shop
    /\ contents[1].types # <<>>
    /\ ref.ref = <<"[", "]", "t">>

-----------------------------------------------------------------------------
(* The diff command: commands/diff.py.  Both databases are loaded into the  *)
(* one heap; what is written to sys.stdout is recorded as the sequence of  *)
(* operations rendered, not as their SQL text.                             *)

\* PgDatabase.__init__ and the attributes load sets (those the diff reads)
PgDatabase(schemas_, objects_) ==
    [tag |-> "db", schemas |-> schemas_, triggers |-> {}, objects |-> objects_]

\* PgDatabase.operators: no such attribute is set by the PgDatabase at hand;
\* it maps a key to each operator of the database, and no loader adds one
Operators(database) == {}

\* the comprehension of load: load_object for each object_data in turn
RECURSIVE LoadObjects(_, _)
LoadObjects(db, data) ==
    IF data = <<>> THEN Returned(db, <<>>)
    ELSE LET Rest(r, rest) ==
                 IF rest.raised # NoError THEN rest
                 ELSE Returned(rest.db, <<r.result>> \o rest.result)
             Then(r) ==
                 IF r.raised # NoError THEN r
                 ELSE Rest(r, LoadObjects(r.db, Tail(data)))
         IN  Then(load_object(db, Head(data)))

\* load(infile): a new PgDatabase filled from the objects of the document
Load(h, c, file) ==
    LET Then(r) ==
            IF r.raised # NoError THEN r
            ELSE Returned(r.db, PgDatabase(r.db.schemas, r.result))
    IN  Then(LoadObjects([heap |-> h, contents |-> c, schemas |-> {}], file))

\* dict.items() of a dict held as a set of <<key, value>>: insertion order,
\* which for objects made one after the other is the order of their ids
RECURSIVE Items(_)
Items(dict) ==
    IF dict = {} THEN <<>>
    ELSE LET p == CHOOSE x \in dict : \A y \in dict : x[2] <= y[2]
         IN  <<p>> \o Items(dict \ {p})

\* one operation written to sys.stdout: what is rendered, of which object
Operation(op, object, column) ==
    [op |-> op, object |-> object, column |-> column]

\* the operation `op` for each object of a sequence
Operations(op, objs) ==
    [k \in DOMAIN objs |-> Operation(op, objs[k], None)]

\* function_matches: `!=` of two PgTypeRef compares the objects
function_matches(h, current_function, target_function) ==
    /\ h[current_function].name = h[target_function].name
    /\ Len(h[current_function].arguments) = Len(h[target_function].arguments)
    /\ \A k \in DOMAIN h[current_function].arguments :
          h[current_function].arguments[k].data_type
              = h[target_function].arguments[k].data_type
    /\ h[current_function].return_type = h[target_function].return_type

\* some object of the list has the name of object o
NameIn(h, o, list) == \E k \in DOMAIN list : h[list[k]].name = h[o].name

\* next(t for t in list if t.name == o.name), when there is one
FirstNamed(h, o, list) ==
    list[CHOOSE k \in DOMAIN list :
            /\ h[list[k]].name = h[o].name
            /\ \A m \in 1..(k-1) : h[list[m]].name # h[o].name]

find_new_views(db, current_schema, target_schema) ==
    SelectSeq(db.contents[target_schema].views,
              LAMBDA v : ~NameIn(db.heap, v, db.contents[current_schema].views))

find_removed_views(db, current_schema, target_schema) ==
    SelectSeq(db.contents[current_schema].views,
              LAMBDA v : ~NameIn(db.heap, v, db.contents[target_schema].views))

find_new_tables(db, current_schema, target_schema) ==
    SelectSeq(db.contents[target_schema].tables,
              LAMBDA t : ~NameIn(db.heap, t, db.contents[current_schema].tables))

find_removed_tables(db, current_schema, target_schema) ==
    SelectSeq(db.contents[current_schema].tables,
              LAMBDA t : ~NameIn(db.heap, t, db.contents[target_schema].tables))

find_new_types(db, current_schema, target_schema) ==
    SelectSeq(db.contents[target_schema].composite_types,
              LAMBDA t : ~NameIn(db.heap, t,
                                 db.contents[current_schema].composite_types))

find_removed_types(db, current_schema, target_schema) ==
    SelectSeq(db.contents[current_schema].composite_types,
              LAMBDA t : ~NameIn(db.heap, t,
                                 db.contents[target_schema].composite_types))

find_new_functions(db, current_schema, target_schema) ==
    SelectSeq(db.contents[target_schema].functions,
              LAMBDA t : ~\E k \in DOMAIN db.contents[current_schema].functions :
                  function_matches(db.heap,
                                   db.contents[current_schema].functions[k], t))

\* function_matches is called with the target function first here
find_removed_functions(db, current_schema, target_schema) ==
    SelectSeq(db.contents[current_schema].functions,
              LAMBDA c : ~\E k \in DOMAIN db.contents[target_schema].functions :
                  function_matches(db.heap,
                                   db.contents[target_schema].functions[k], c))

\* the target function of each current function that has a match whose src
\* differs; the match is the first target function that matches
find_modified_functions(db, current_schema, target_schema) ==
    LET targets == db.contents[target_schema].functions
        Matches(c, k) == function_matches(db.heap, targets[k], c)
        Match(c) == targets[CHOOSE k \in DOMAIN targets :
                               Matches(c, k) /\ \A m \in 1..(k-1) : ~Matches(c, m)]
        modified ==
            SelectSeq(db.contents[current_schema].functions,
                      LAMBDA c : /\ \E k \in DOMAIN targets : Matches(c, k)
                                 /\ db.heap[Match(c)].src # db.heap[c].src)
    IN  [k \in DOMAIN modified |-> Match(modified[k])]

\* DropColumn(table, column) and AddColumn(table, column)
DropColumn(table, column) == Operation("drop_column", table, column)
AddColumn(table, column) == Operation("add_column", table, column)

\* PgTable.diff(other): the drop-column steps for the columns of self whose
\* name other lacks, then the add-column steps for the columns of other
\* whose name self lacks; None when there is no step
PgTableDiff(h, self, other) ==
    LET HasColumn(t, c) == \E k \in DOMAIN h[t].columns : h[t].columns[k].name = c.name
        dropped == SelectSeq(h[self].columns, LAMBDA c : ~HasColumn(other, c))
        added == SelectSeq(h[other].columns, LAMBDA c : ~HasColumn(self, c))
        steps == [k \in DOMAIN dropped |-> DropColumn(self, dropped[k])]
                 \o [k \in DOMAIN added |-> AddColumn(self, added[k])]
    IN  IF steps = <<>> THEN None
        ELSE [tag |-> "diff", id |-> self, str |-> <<>>, steps |-> steps]

\* find_modified_tables comparing no table
find_modified_tables_none(db, current_schema, target_schema) == <<>>

\* the diff of each current table that has a target table of its name
find_modified_tables(db, current_schema, target_schema) ==
    LET targets == db.contents[target_schema].tables
        Diff(c) == PgTableDiff(db.heap, c, FirstNamed(db.heap, c, targets))
        modified ==
            SelectSeq(db.contents[current_schema].tables,
                      LAMBDA c : NameIn(db.heap, c, targets) /\ Diff(c) # None)
    IN  [k \in DOMAIN modified |-> Diff(modified[k])]

\* render_modification of every step of every diff, in order
RECURSIVE Modifications(_)
Modifications(diffs) ==
    IF diffs = <<>> THEN <<>>
    ELSE Head(diffs).steps \o Modifications(Tail(diffs))

\* diff_schema, lines 91-104: the drops.  render_drop_view_sql is not among
\* the names diff.py imports, so the first removed view raises NameError.
diff_schema_drops(db, current_schema, target_schema) ==
    LET functions ==
            Operations("drop_function",
                       find_removed_functions(db, current_schema, target_schema))
        tables ==
            Operations("drop_table",
                       find_removed_tables(db, current_schema, target_schema))
        types ==
            Operations("drop_type",
                       find_removed_types(db, current_schema, target_schema))
    IN  IF find_removed_views(db, current_schema, target_schema) # <<>>
        THEN [result |-> functions \o tables,
              raised |-> Exception("NameError", <<"render_drop_view_sql">>)]
        ELSE [result |-> functions \o tables \o types, raised |-> NoError]

\* diff_schema, lines 106-146: the creates, the column steps, the replaces
diff_schema_creates(db, current_schema, target_schema) ==
    Operations("create_table",
               find_new_tables(db, current_schema, target_schema))
    \o Operations("create_view",
                  find_new_views(db, current_schema, target_schema))
    \o Modifications(find_modified_tables(db, current_schema, target_schema))
    \o Operations("create_type",
                  find_new_types(db, current_schema, target_schema))
    \o Operations("create_function",
                  find_new_functions(db, current_schema, target_schema))
    \o Operations("replace_function",
                  find_modified_functions(db, current_schema, target_schema))

\* diff_schema writing the creates ahead of the drops
diff_schema_creates_first(db, current_schema, target_schema) ==
    LET drops == diff_schema_drops(db, current_schema, target_schema)
    IN  [db |-> db,
         result |-> diff_schema_creates(db, current_schema, target_schema)
                    \o drops.result,
         raised |-> drops.raised]

\* diff_schema taking each dropped table out of current_schema.tables
diff_schema_removing(db, current_schema, target_schema) ==
    LET drops == diff_schema_drops(db, current_schema, target_schema)
        removed == find_removed_tables(db, current_schema, target_schema)
        after == [db EXCEPT !.contents[current_schema].tables =
                     SelectSeq(@, LAMBDA t : ~InList(t, removed))]
    IN  [db |-> after,
         result |-> drops.result
                    \o (IF drops.raised # NoError THEN <<>>
                        ELSE diff_schema_creates(db, current_schema,
                                                 target_schema)),
         raised |-> drops.raised]

\* diff_schema: what it writes, what it raises, and the databases after it
diff_schema(db, current_schema, target_schema) ==
    LET drops == diff_schema_drops(db, current_schema, target_schema)
    IN  IF drops.raised # NoError
        THEN [db |-> db, result |-> drops.result, raised |-> drops.raised]
        ELSE [db |-> db,
              result |-> drops.result
                         \o diff_schema_creates(db, current_schema,
                                                target_schema),
              raised |-> NoError]

\* the values of dict `mine` whose key dict `theirs` lacks
MissingFrom(mine, theirs) ==
    LET items == SelectSeq(Items(mine),
                           LAMBDA p : ~\E q \in theirs : q[1] = p[1])
    IN  [k \in DOMAIN items |-> items[k][2]]

find_removed_operators(current, target) ==
    MissingFrom(Operators(current), Operators(target))

find_new_operators(current, target) ==
    MissingFrom(Operators(target), Operators(current))

find_removed_triggers(current, target) ==
    MissingFrom(current.triggers, target.triggers)

find_new_triggers(current, target) ==
    MissingFrom(target.triggers, current.triggers)

\* diff_command, lines 47-51: both documents are loaded
DiffCommand ==
    /\ pc = "diff_command"
    /\ LET Target(r1, r2) ==
               /\ heap' = r2.db.heap
               /\ contents' = r2.db.contents
               /\ current_db' = r1.result
               /\ IF r2.raised # NoError
                  THEN /\ pc' = "failed"
                       /\ error' = r2.raised
                       /\ UNCHANGED target_db
                  ELSE /\ pc' = "diff_db"
                       /\ target_db' = r2.result
                       /\ UNCHANGED error
           Current(r1) ==
               IF r1.raised # NoError
               THEN /\ pc' = "failed"
                    /\ error' = r1.raised
                    /\ heap' = r1.db.heap
                    /\ contents' = r1.db.contents
                    /\ UNCHANGED <<current_db, target_db>>
               ELSE Target(r1, Load(r1.db.heap, r1.db.contents, target_file))
       IN  Current(Load(heap, contents, current_file))
    /\ UNCHANGED <<current_file, target_file, schema_items, stdout>>
    /\ UNCHANGED dbvars
    /\ UNCHANGED callvars

\* diff_db, lines 57-67: the operators of the two databases
DiffOperators ==
    /\ pc = "diff_db"
    /\ stdout' = stdout
                 \o Operations("drop_operator",
                               find_removed_operators(current_db, target_db))
                 \o Operations("create_operator",
                               find_new_operators(current_db, target_db))
    /\ schema_items' = Items(target_db.schemas)
    /\ pc' = "diff_schemas"
    /\ UNCHANGED <<heap, contents, error, current_file, target_file,
                   current_db, target_db>>
    /\ UNCHANGED dbvars
    /\ UNCHANGED callvars

\* diff_db, lines 69-75: one turn of the loop over target_db.schemas
DiffSchema ==
    /\ pc = "diff_schemas"
    /\ schema_items # <<>>
    /\ LET name == Head(schema_items)[1]
           target_schema == Head(schema_items)[2]
       IN  IF HasSchema(current_db, name)
           THEN LET Then(r) ==
                        /\ stdout' = stdout \o r.result
                        /\ heap' = r.db.heap
                        /\ contents' = r.db.contents
                        /\ error' = r.raised
                        /\ pc' = IF r.raised = NoError THEN pc ELSE "failed"
                IN  Then(diff_schema([heap |-> heap, contents |-> contents],
                                     SchemaNamed(current_db, name),
                                     target_schema))
           ELSE /\ stdout' = Append(stdout,
                                    Operation("add_schema", target_schema, None))
                /\ UNCHANGED <<heap, contents, error, pc>>
    /\ schema_items' = Tail(schema_items)
    /\ UNCHANGED <<current_file, target_file, current_db, target_db>>
    /\ UNCHANGED dbvars
    /\ UNCHANGED callvars

\* diff_db, lines 77-87: the triggers of the two databases; diff_db returns
DiffTriggers ==
    /\ pc = "diff_schemas"
    /\ schema_items = <<>>
    /\ stdout' = stdout
                 \o Operations("drop_trigger",
                               find_removed_triggers(current_db, target_db))
                 \o Operations("create_trigger",
                               find_new_triggers(current_db, target_db))
    /\ pc' = "diffed"
    /\ UNCHANGED <<heap, contents, error, current_file, target_file,
                   current_db, target_db, schema_items>>
    /\ UNCHANGED dbvars
    /\ UNCHANGED callvars

-----------------------------------------------------------------------------
(* Specification SpecDiff: diff_command on two documents of up to          *)
(* MaxFileLen objects each.                                                *)

NameC == <<"c">>
NameD == <<"d">>
NameE == <<"e">>
NameF == <<"f">>
NameT == <<"t">>
NameV == <<"v">>
int == <<"i", "n", "t">>
text == <<"t", "e", "x", "t">>

\* the object_data of a function, of a view and of a composite type
FunctionData(schema, name, arguments, return_type, source) ==
    [kind |-> "function", name |-> name, schema |-> StrVal(schema),
     arguments |-> arguments, return_type |-> return_type, source |-> source]

ViewData(schema, name) ==
    [kind |-> "view", name |-> name, schema |-> StrVal(schema)]

CompositeTypeData(schema, name, columns) ==
    [kind |-> "composite_type", name |-> name, schema |-> schema,
     columns |-> columns]

\* a column of the document
NamedColumnData(name, data_type) == [name |-> name, data_type |-> data_type]

\* the objects the two documents are made of, in the order a document lists
\* them: two versions of table shop.a, a table of the default schema, a
\* view, a composite type, and three functions f of schema shop: two
\* sources of f(int), and f(text)
DiffMenu ==
    <<TableData(StrVal(shop), NameA,
               <<NamedColumnData(NameC, int), NamedColumnData(NameD, int)>>,
               <<>>, None),
     TableData(StrVal(shop), NameA,
               <<NamedColumnData(NameD, int), NamedColumnData(NameE, int)>>,
               <<>>, None),
     TableData(None, NameB, <<>>, <<>>, None),
     ViewData(shop, NameV),
     CompositeTypeData(StrVal(shop), NameT, <<>>),
     FunctionData(shop, NameF, <<int>>, int, <<"1">>),
     FunctionData(shop, NameF, <<int>>, int, <<"2">>),
     FunctionData(shop, NameF, <<text>>, int, <<"1">>)>>

\* the documents of at most n objects that list objects of the menu
RECURSIVE FilesUpTo(_, _)
FilesUpTo(menu, n) ==
    IF menu = <<>> \/ n = 0 THEN {<<>>}
    ELSE FilesUpTo(Tail(menu), n)
         \cup {<<Head(menu)>> \o f : f \in FilesUpTo(Tail(menu), n - 1)}

InitDiff ==
    /\ current_file \in FilesUpTo(DiffMenu, MaxFileLen)
    /\ target_file \in FilesUpTo(DiffMenu, MaxFileLen)
    /\ current_db = None
    /\ target_db = None
    /\ schema_items = <<>>
    /\ stdout = <<>>
    /\ heap = <<>>
    /\ contents = <<>>
    /\ schemas = {}
    /\ objects = <<>>
    /\ doc = <<>>
    /\ loaded = <<>>
    /\ pc = "diff_command"
    /\ to_include = <<>>
    /\ included = <<>>
    /\ rule = "none"
    /\ run = 1
    /\ first = <<>>
    /\ error = NoError
    /\ ref = None
    /\ results = <<>>
    /\ NoCall

NextDiff ==
    \/ DiffCommand
    \/ DiffOperators
    \/ DiffSchema
    \/ DiffTriggers

SpecDiff == InitDiff /\ [][NextDiff]_vars

-----------------------------------------------------------------------------
(* Properties of the diff *)

\* diff_db has returned or raised
DiffEnded == pc = "diffed" \/ (pc = "failed" /\ target_db # None)

\* the schema objects of a database
SchemasOf(database) == {p[2] : p \in database.schemas}

\* the tables, views, composite types and functions of schema s
DiffObjects(s) ==
    Range(contents[s].tables) \cup Range(contents[s].views)
    \cup Range(contents[s].composite_types) \cup Range(contents[s].functions)

\* the argument-type list of function f, as the document spells it
ArgumentTypes(f) ==
    [k \in DOMAIN heap[f].arguments |-> heap[heap[f].arguments[k].data_type.id].name]

\* objects o and p have one identity key: kind, schema name, name and, for
\* functions, argument-type list
SameIdentity(o, p) ==
    /\ heap[o].kind = heap[p].kind
    /\ heap[heap[o].schema].name = heap[heap[p].schema].name
    /\ heap[o].name = heap[p].name
    /\ heap[o].kind = "function" => ArgumentTypes(o) = ArgumentTypes(p)

\* object o has an identity-matching object in the database
MatchedIn(o, database) ==
    \E s \in SchemasOf(database) : \E p \in DiffObjects(s) : SameIdentity(o, p)

\* how many times operation op of object o was written
WrittenOps(op, o) ==
    Cardinality({k \in DOMAIN stdout : stdout[k].op = op /\ stdout[k].object = o})

\* the drop, create and replace operations of object o
Drops(o) ==
    WrittenOps("drop_table", o) + WrittenOps("drop_view", o)
    + WrittenOps("drop_type", o) + WrittenOps("drop_function", o)

Creates(o) ==
    WrittenOps("create_table", o) + WrittenOps("create_view", o)
    + WrittenOps("create_type", o) + WrittenOps("create_function", o)

Replaces(o) == WrittenOps("replace_function", o)

\* C13: when the two documents are the same, the diff writes no operation.
C13_SelfDiffEmpty ==
    (DiffEnded /\ current_file = target_file) => stdout = <<>>

\* C14: when the diff has ended, every table, view, composite type and
\* function of a schema of the current database that has no
\* identity-matching object in the target database has exactly one drop
\* operation.
C14_RemovedDropped ==
    DiffEnded =>
        \A s \in SchemasOf(current_db) : \A o \in DiffObjects(s) :
            ~MatchedIn(o, target_db) => Drops(o) = 1

\* C15: when the diff has returned, every table, view, composite type and
\* function of a schema of the target database has exactly one create
\* operation when no object of the current database matches its identity,
\* and none when one does.
C15_AddedCreated ==
    pc = "diffed" =>
        \A s \in SchemasOf(target_db) : \A o \in DiffObjects(s) :
            Creates(o) = IF MatchedIn(o, current_db) THEN 0 ELSE 1

\* C16: when both databases hold two overloads of a function and the
\* source of one overload differs between them, the diff writes one replace
\* for that overload, and no drop, create or replace for the other.
C16_OverloadsDistinct ==
    pc = "diffed" =>
        \A s \in SchemasOf(current_db) : \A t \in SchemasOf(target_db) :
        \A c1 \in Range(contents[s].functions) :
        \A c2 \in Range(contents[s].functions) :
        \A t1 \in Range(contents[t].functions) :
        \A t2 \in Range(contents[t].functions) :
            ( /\ heap[c1].name = heap[c2].name
              /\ ArgumentTypes(c1) # ArgumentTypes(c2)
              /\ SameIdentity(c1, t1) /\ SameIdentity(c2, t2)
              /\ heap[c1].src # heap[t1].src
              /\ heap[c2].src = heap[t2].src )
            => /\ Replaces(t1) = 1
               /\ Drops(c1) = 0 /\ Creates(t1) = 0
               /\ Drops(c2) = 0 /\ Creates(t2) = 0 /\ Replaces(t2) = 0

\* the place of an operation in the order of diff_schema
Rank(op) ==
    CASE op = "drop_function" -> 1
      [] op = "drop_table" -> 2
      [] op = "drop_view" -> 3
      [] op = "drop_type" -> 4
      [] op = "create_table" -> 5
      [] op = "create_view" -> 6
      [] op \in {"drop_column", "add_column"} -> 7
      [] op = "create_type" -> 8
      [] op = "create_function" -> 9
      [] op = "replace_function" -> 10
      [] OTHER -> 0

\* the name of the schema the operation at place k of stdout belongs to
SchemaOfOp(k) == heap[heap[stdout[k].object].schema].name

\* C17: of two operations written for one schema, the later one never
\* stands earlier in the order dropped functions, dropped tables, dropped
\* views, dropped types, new tables, new views, column steps, new types,
\* new functions, replaced functions.
C17_EmissionOrder ==
    \A i \in DOMAIN stdout : \A j \in DOMAIN stdout :
        ( /\ i < j
          /\ Rank(stdout[i].op) > 0 /\ Rank(stdout[j].op) > 0
          /\ SchemaOfOp(i) = SchemaOfOp(j) )
        => Rank(stdout[i].op) <= Rank(stdout[j].op)

\* the diff returned after writing, for one schema, a drop, then a create,
\* then a column step
C17_Witness ==
    /\ pc = "diffed"
    /\ \E i \in DOMAIN stdout : \E j \in DOMAIN stdout : \E k \in DOMAIN stdout :
          /\ i < j /\ j < k
          /\ SchemaOfOp(i) = SchemaOfOp(j) /\ SchemaOfOp(j) = SchemaOfOp(k)
          /\ Rank(stdout[i].op) \in 1..4
          /\ Rank(stdout[j].op) \in 5..6
          /\ Rank(stdout[k].op) = 7

\* C18: no step of diff_db changes an object, a collection of a schema or
\* an attribute of either database.
C18_InputsUnchanged ==
    [][(pc = "diff_db" \/ pc = "diff_schemas") =>
          (heap' = heap /\ contents' = contents /\ current_db' = current_db
           /\ target_db' = target_db)]_vars

\* the diff returned after dropping a table of the current database
C18_Witness ==
    /\ pc = "diffed"
    /\ \E k \in DOMAIN stdout : stdout[k].op = "drop_table"

\* how many times the column step op of table t and column c was written
WrittenSteps(op, t, c) ==
    Cardinality({k \in DOMAIN stdout :
                    stdout[k] = Operation(op, t, c)})

\* table t has a column of that name
HasColumnNamed(t, name) ==
    \E k \in DOMAIN heap[t].columns : heap[t].columns[k].name = name

-----------------------------------------------------------------------------
(* Specification SpecRoles: diff_command on two documents that declare     *)
(* roles, which makes two loads in one process.                            *)

\* the object_data of a role
RoleData(name, memberships) ==
    [kind |-> "role", name |-> name, memberships |-> memberships]

\* the objects the two documents are made of, in the order a document lists
\* them: role a, a member of b; role b; role c, a member of b; a table
RoleMenu ==
    <<RoleData(NameA, <<NameB>>),
      RoleData(NameB, <<>>),
      RoleData(NameC, <<NameB>>),
      TableData(None, NameB, <<>>, <<>>, None)>>

InitRoles ==
    /\ current_file \in FilesUpTo(RoleMenu, MaxFileLen)
    /\ target_file \in FilesUpTo(RoleMenu, MaxFileLen)
    /\ current_db = None
    /\ target_db = None
    /\ schema_items = <<>>
    /\ stdout = <<>>
    /\ heap = <<>>
    /\ contents = <<>>
    /\ schemas = {}
    /\ objects = <<>>
    /\ doc = <<>>
    /\ loaded = <<>>
    /\ pc = "diff_command"
    /\ to_include = <<>>
    /\ included = <<>>
    /\ rule = "none"
    /\ run = 1
    /\ first = <<>>
    /\ error = NoError
    /\ ref = None
    /\ results = <<>>
    /\ NoCall

SpecRoles == InitRoles /\ [][NextDiff]_vars

-----------------------------------------------------------------------------
(* Properties of the loading of roles *)

\* the document declares a role of that name at a position in S
DeclaresRole(file, name, S) ==
    \E j \in DOMAIN file \cap S :
        file[j].kind = "role" /\ file[j].name = name

\* the memberships of the role loaded from file[k] of a loaded database are
\* the roles of that database that bear the names file[k] lists
MembersResolved(file, k, database) ==
    LET members == heap[database.objects[k]].membership
    IN  /\ Len(members) = Len(file[k].memberships)
        /\ \A q \in DOMAIN members :
              /\ heap[members[q]].name = file[k].memberships[q]
              /\ InList(members[q], database.objects)

\* C21: the load of a document in which a role lists as a membership a role
\* that the same document declares later succeeds, and the membership entry
\* is then the role object of that name.
C21_ForwardMembership ==
    pc # "diff_command" =>
        \A k \in DOMAIN current_file :
            (/\ current_file[k].kind = "role"
             /\ \E q \in DOMAIN current_file[k].memberships :
                   DeclaresRole(current_file, current_file[k].memberships[q],
                                (k+1)..Len(current_file))) =>
                /\ current_db # None
                /\ MembersResolved(current_file, k, current_db)

\* C30: the second load of a process is not influenced by the first: a
\* membership naming a role that the second document does not declare is
\* rejected, and the memberships of the roles it loads are roles it loaded.
C30_LoadsIndependent ==
    (pc # "diff_command" /\ current_db # None) =>
        /\ (\E k \in DOMAIN target_file :
               /\ target_file[k].kind = "role"
               /\ \E q \in DOMAIN target_file[k].memberships :
                     ~DeclaresRole(target_file, target_file[k].memberships[q],
                                   DOMAIN target_file))
              => target_db = None
        /\ target_db # None =>
              \A k \in DOMAIN target_file :
                  target_file[k].kind = "role" =>
                      \A q \in DOMAIN heap[target_db.objects[k]].membership :
                          InList(heap[target_db.objects[k]].membership[q],
                                 target_db.objects)

-----------------------------------------------------------------------------
(* tools/ordermerge.py: the objects of one document in the order of        *)
(* another.  format_yaml, which turns the result into text, is not         *)
(* followed: the result is the sequence of objects to_json has ordered.    *)

\* extended_type: for a function the to_json(short=True) of the type of each
\* argument, a PgTypeRef without registry, which is its ref
extended_type(h, object) ==
    IF h[object].kind = "function"
    THEN [k \in DOMAIN h[object].arguments |->
             h[h[object].arguments[k].data_type.id].name]
    ELSE h[object].kind

\* main, lines 21-32: result.objects.  A dict keeps each key at the place of
\* its first insertion, with the value of its last.
OrderMergeObjects(h, source, ordersource) ==
    LET Key(o) == <<h[h[o].schema].name, h[o].name, extended_type(h, o)>>
        objs == source.objects
        First(k) == \A m \in 1..(k-1) : Key(objs[m]) # Key(objs[k])
        Last(key) == objs[CHOOSE k \in DOMAIN objs :
                             /\ Key(objs[k]) = key
                             /\ \A m \in (k+1)..Len(objs) : Key(objs[m]) # key]
        keys == SelectSeq([k \in DOMAIN objs |-> k], First)
        values == [k \in DOMAIN keys |-> Last(Key(objs[keys[k]]))]
        InDict(o) == \E k \in DOMAIN objs : Key(objs[k]) = Key(o)
        found == SelectSeq(ordersource.objects, InDict)
        ordered == [k \in DOMAIN found |-> Last(Key(found[k]))]
    IN  ordered \o SelectSeq(values, LAMBDA o : ~InList(o, ordered))

\* lines 36-39 and main: both documents are loaded, one after the other, and
\* result.objects is filled; result.to_json is then to run
OrderMerge ==
    /\ pc = "ordermerge"
    /\ LET Main(r1, r2) ==
               /\ heap' = r2.db.heap
               /\ contents' = r2.db.contents
               /\ current_db' = r1.result
               /\ IF r2.raised # NoError
                  THEN /\ pc' = "failed"
                       /\ error' = r2.raised
                       /\ UNCHANGED <<target_db, objects>>
                  ELSE /\ pc' = "loaded"
                       /\ target_db' = r2.result
                       /\ objects' = OrderMergeObjects(r2.db.heap, r1.result,
                                                       r2.result)
                       /\ UNCHANGED error
           Source(r1) ==
               IF r1.raised # NoError
               THEN /\ pc' = "failed"
                    /\ error' = r1.raised
                    /\ heap' = r1.db.heap
                    /\ contents' = r1.db.contents
                    /\ UNCHANGED <<current_db, target_db, objects>>
               ELSE Main(r1, Load(r1.db.heap, r1.db.contents, target_file))
       IN  Source(Load(heap, contents, current_file))
    /\ UNCHANGED <<current_file, target_file, schema_items, stdout>>
    /\ UNCHANGED <<schemas, doc, loaded, to_include, included, rule, run,
                   first, ref, results>>
    /\ UNCHANGED callvars

\* the objects the two documents are made of, in the order a document lists
\* them: role c; role b; role c, a member of b; a table
MergeMenu ==
    <<RoleData(NameC, <<>>),
      RoleData(NameB, <<>>),
      RoleData(NameC, <<NameB>>),
      TableData(None, NameB, <<>>, <<>>, None)>>

\* current_file is the document of source, target_file that of ordersource
InitMerge ==
    /\ current_file \in FilesUpTo(MergeMenu, MaxFileLen)
    /\ target_file \in FilesUpTo(MergeMenu, MaxFileLen)
    /\ current_db = None
    /\ target_db = None
    /\ schema_items = <<>>
    /\ stdout = <<>>
    /\ heap = <<>>
    /\ contents = <<>>
    /\ schemas = {}
    /\ objects = <<>>
    /\ doc = <<>>
    /\ loaded = <<>>
    /\ pc = "ordermerge"
    /\ to_include = <<>>
    /\ included = <<>>
    /\ rule = "none"
    /\ run = 1
    /\ first = <<>>
    /\ error = NoError
    /\ ref = None
    /\ results = <<>>
    /\ NoCall

NextMerge ==
    \/ OrderMerge
    \/ ToJsonBegin
    \/ OrderStep
    \/ ToJsonReturn

SpecMerge == InitMerge /\ [][NextMerge]_vars

\* the identity key of an object: schema name, name, kind or argument types
IdentityKey(o) ==
    <<heap[heap[o].schema].name, heap[o].name,
      IF heap[o].kind = "function"
      THEN [k \in DOMAIN heap[o].arguments |->
               heap[heap[o].arguments[k].data_type.id].name]
      ELSE heap[o].kind>>

\* the place of the key of o in ordersource: 0 when it has no counterpart
PlaceInOrder(o) ==
    LET objs == target_db.objects
    IN  IF \E k \in DOMAIN objs : IdentityKey(objs[k]) = IdentityKey(o)
        THEN CHOOSE k \in DOMAIN objs :
                 /\ IdentityKey(objs[k]) = IdentityKey(o)
                 /\ \A m \in 1..(k-1) : IdentityKey(objs[m]) # IdentityKey(o)
        ELSE 0

\* no two objects of the list have one identity key
DistinctKeys(objs) ==
    \A i \in DOMAIN objs : \A j \in DOMAIN objs :
        IdentityKey(objs[i]) = IdentityKey(objs[j]) => i = j

\* C22: for documents that declare each object once, the result of main
\* holds each object of source once and no other; those with a counterpart
\* in ordersource stand in the order of their keys in ordersource, ahead of
\* all those without.
C22_OrderOfOrdersource ==
    (/\ pc = "done" /\ target_db # None
     /\ DistinctKeys(current_db.objects) /\ DistinctKeys(target_db.objects)) =>
        /\ Len(included) = Len(current_db.objects)
        /\ \A k \in DOMAIN current_db.objects :
              Count(included, current_db.objects[k]) = 1
        /\ \A i \in DOMAIN included : \A j \in DOMAIN included :
              (i < j /\ PlaceInOrder(included[j]) # 0) =>
                  /\ PlaceInOrder(included[i]) # 0
                  /\ PlaceInOrder(included[i]) <= PlaceInOrder(included[j])

-----------------------------------------------------------------------------
(* Single calls: PgTrigger.analyze_type.                                   *)

\* analyze_type reading delete at bit 4 and update at bit 3
analyze_type_update_first(tgtype) ==
    LET Bit(k) == (tgtype \div 2^k) % 2
    IN  <<IF Bit(6) # 0 THEN "instead"
          ELSE IF Bit(1) # 0 THEN "before" ELSE "after",
          (IF Bit(2) # 0 THEN <<"insert">> ELSE <<>>)
          \o (IF Bit(4) # 0 THEN <<"delete">> ELSE <<>>)
          \o (IF Bit(3) # 0 THEN <<"update">> ELSE <<>>)
          \o (IF Bit(5) # 0 THEN <<"truncate">> ELSE <<>>),
          IF Bit(0) # 0 THEN "row" ELSE "statement">>

\* PgTrigger.analyze_type: (timing, triggertypes, 'row' or 'statement').
\* Each `tgtype //= 2` makes the next value of tgtype.
analyze_type(tgtype) ==
    LET affect_row == tgtype % 2
        tgtype1 == tgtype \div 2
        timing == IF tgtype1 % 2 # 0 THEN "before" ELSE "after"
        tgtype2 == tgtype1 \div 2
        insert == IF tgtype2 % 2 # 0 THEN <<"insert">> ELSE <<>>
        tgtype3 == tgtype2 \div 2
        delete == IF tgtype3 % 2 # 0 THEN <<"delete">> ELSE <<>>
        tgtype4 == tgtype3 \div 2
        update == IF tgtype4 % 2 # 0 THEN <<"update">> ELSE <<>>
        tgtype5 == tgtype4 \div 2
        truncate == IF tgtype5 % 2 # 0 THEN <<"truncate">> ELSE <<>>
        tgtype6 == tgtype5 \div 2
    IN  <<IF tgtype6 % 2 # 0 THEN "instead" ELSE timing,
          insert \o delete \o update \o truncate,
          IF affect_row # 0 THEN "row" ELSE "statement">>

\* a call of analyze_type
AnalyzeType ==
    /\ pc = "call"
    /\ call.function = "analyze_type"
    /\ returned' = analyze_type(call.tgtype)
    /\ pc' = "returned"
    /\ UNCHANGED <<heap, contents, error, call>>
    /\ UNCHANGED diffvars
    /\ UNCHANGED dbvars

-----------------------------------------------------------------------------
(* Single calls: PgTable.load followed by PgTable.to_json.                 *)

\* PgTypeRef.to_json(short=True, showdefault=False): the bare name for a
\* type of a silent schema, else the qualified name; the object the
\* reference resolves to, a declared one or a placeholder, renders itself
\* so, and so does the handler of a KeyError
TypeRefToJson(h, typeref) ==
    IF InList(h[typeref.registry.id].name, SILENT_SCHEMAS)
    THEN typeref.ref
    ELSE h[typeref.registry.id].name \o <<".">> \o typeref.ref

\* PgTable.to_json(): name, schema, columns and foreign_keys of the dict.
\* PgForeignKey.to_json reads ref_table.name and ref_table.schema.name,
\* which a str does not have.
PgTableToJson(h, self) ==
    IF ToJsonRaises(h, self)
    THEN [raised |-> Exception("AttributeError", <<>>), result |-> None]
    ELSE [raised |-> NoError,
          result |->
              [name |-> h[self].name,
               schema |-> h[h[self].schema].name,
               columns |->
                   [k \in DOMAIN h[self].columns |->
                       [name |-> h[self].columns[k].name,
                        data_type |->
                            TypeRefToJson(h, h[self].columns[k].data_type)]],
               foreign_keys |->
                   [k \in DOMAIN h[self].foreign_keys |->
                       [name |-> h[self].foreign_keys[k].name,
                        schema |->
                            h[h[h[self].foreign_keys[k].ref_table.id].schema].name,
                        table |->
                            h[h[self].foreign_keys[k].ref_table.id].name]]]]

\* a table is loaded from its object_data into a new database and
\* serialized
TableRoundTrip ==
    /\ pc = "call"
    /\ call.function = "to_json"
    /\ LET Then(r) ==
               /\ heap' = r.db.heap
               /\ contents' = r.db.contents
               /\ returned' = IF r.raised # NoError
                              THEN [raised |-> r.raised, result |-> None]
                              ELSE PgTableToJson(r.db.heap, r.result)
       IN  Then(PgTableLoad([heap |-> heap, contents |-> contents,
                             schemas |-> {}], call.data))
    /\ pc' = "returned"
    /\ UNCHANGED <<error, call>>
    /\ UNCHANGED diffvars
    /\ UNCHANGED dbvars

-----------------------------------------------------------------------------
(* Single calls: PgDatabase.find_dependencies.  Positions of a text count  *)
(* from 1 here, where those of the code count from 0.                      *)

\* the characters \w matches, among those the texts are written in
WordChars == {"s", "h", "o", "p", "f", "a", "1", "_"}

\* the end of the longest run of word characters that starts at p (p - 1
\* when txt[p] is none): what a greedy [\w_]+ takes when no word character
\* may follow it
WordRunEnd(txt, p) ==
    CHOOSE q \in (p-1)..Len(txt) :
        /\ \A k \in p..q : txt[k] \in WordChars
        /\ q < Len(txt) => txt[q+1] \notin WordChars

\* the position after an optional double quote that may stand after q
AfterQuote(txt, q) ==
    IF q < Len(txt) /\ txt[q+1] = "\"" THEN q + 1 ELSE q

\* where [\w_]+"?\.[\w_]+"? matches from p: the end of its two names, 0 when
\* it does not match
QualifiedNameEnd(txt, p) ==
    LET Second(dot) ==
            IF dot <= Len(txt) /\ txt[dot] = "."
                  /\ WordRunEnd(txt, dot + 1) > dot
            THEN WordRunEnd(txt, dot + 1)
            ELSE 0
    IN  IF WordRunEnd(txt, p) < p THEN 0
        ELSE Second(AfterQuote(txt, WordRunEnd(txt, p)) + 1)

\* dependencyre_with_arguments.findall(text) from position p on: the group
\* of each match, the matches being leftmost and not overlapping
RECURSIVE FindAllWithArguments(_, _)
FindAllWithArguments(txt, p) ==
    IF p > Len(txt) THEN <<>>
    ELSE LET Match(e, paren) ==
                 IF e # 0 /\ paren <= Len(txt) /\ txt[paren] = "("
                 THEN <<SubSeq(txt, p, paren - 1)>>
                      \o FindAllWithArguments(txt, paren + 1)
                 ELSE FindAllWithArguments(txt, p + 1)
             Try(e) == Match(e, AfterQuote(txt, e) + 1)
         IN  Try(QualifiedNameEnd(txt, p))

\* dependencyre_without_arguments.findall(text) from position p on: the two
\* groups of each match.  The lookaheads bar a word character, an opening
\* parenthesis and a double quote with an opening parenthesis behind it.
RECURSIVE FindAllWithoutArguments(_, _)
FindAllWithoutArguments(txt, p) ==
    IF p > Len(txt) THEN <<>>
    ELSE LET Match(q, e) ==
                 IF /\ e # 0
                    /\ ~(e < Len(txt) /\ txt[e+1] = "(")
                    /\ ~(e + 1 < Len(txt) /\ txt[e+1] = "\""
                                           /\ txt[e+2] = "(")
                 THEN <<<<SubSeq(txt, p, q), SubSeq(txt, AfterQuote(txt, q) + 2, e)>>>>
                      \o FindAllWithoutArguments(txt, e + 1)
                 ELSE FindAllWithoutArguments(txt, p + 1)
         IN  Match(WordRunEnd(txt, p), QualifiedNameEnd(txt, p))

\* s.find(sub) + 1: the first position at which sub occurs in s, else 0
Find(s, sub) ==
    LET At(k) == SubSeq(s, k, k + Len(sub) - 1) = sub
        places == {k \in 1..(Len(s) - Len(sub) + 1) : At(k)}
    IN  IF places = {} THEN 0
        ELSE CHOOSE k \in places : \A m \in places : k <= m

\* the while loop of find_dependencies.  loc2 is the index of the code, so
\* remaining_text[loc2] is txt[loc2 + 1]; reading it at loc2 = len(text)
\* raises IndexError.
RECURSIVE ScanArguments(_, _, _, _)
ScanArguments(txt, loc2, depth, commas) ==
    IF ~(depth > 0 /\ loc2 < Len(txt))
    THEN [loc2 |-> loc2, commas |-> commas, raised |-> NoError]
    ELSE IF loc2 + 1 >= Len(txt)
    THEN [loc2 |-> loc2 + 1, commas |-> commas,
          raised |-> Exception("IndexError", <<>>)]
    ELSE ScanArguments(
             txt, loc2 + 1,
             CASE txt[loc2 + 2] = "(" -> depth + 1
               [] txt[loc2 + 2] = ")" -> depth - 1
               [] OTHER -> depth,
             IF txt[loc2 + 2] = "," /\ depth = 1 THEN commas + 1
             ELSE commas)

\* get_schema_by_name(schema_name) and, `if schema`, schema.getall(name): a
\* silent schema that is not registered is made anew and holds nothing
GetAll(db, schema_name, name) ==
    IF HasSchema(db, schema_name)
    THEN SelectSeq(SchemaObjects(db.contents[SchemaNamed(db, schema_name)]),
                   LAMBDA o : db.heap[o].name = name)
    ELSE <<>>

\* argument_number of an object whose arguments are not counted
ArgumentNumberNone(h, o) == 0

\* PgObject.argument_number; an object without arguments has none
ArgumentNumber(h, o) == Len(h[o].arguments)

\* the first loop of find_dependencies, over the names findall returned
RECURSIVE WithArguments(_, _, _)
WithArguments(db, fullnames, remaining_text) ==
    IF fullnames = <<>> THEN [result |-> <<>>, raised |-> NoError]
    ELSE LET fullname == Head(fullnames)
             names == SplitOnce(SelectSeq(fullname, LAMBDA c : c # "\""), ".")
             Whitespace == {" ", "\n", "\t"}
             Rest(deps, rest) ==
                 IF rest.raised # NoError THEN rest
                 ELSE [result |-> deps \o rest.result, raised |-> NoError]
             \* loc and loc2 are the indices of the code
             Scanned(loc, scan) ==
                 IF scan.raised # NoError
                 THEN [result |-> <<>>, raised |-> scan.raised]
                 ELSE Rest(
                     SelectSeq(
                         GetAll(db, names[1], names[2]),
                         LAMBDA o :
                             ArgumentNumber(db.heap, o) =
                                 IF \E k \in (loc + 2)..scan.loc2 :
                                        remaining_text[k] \notin Whitespace
                                 THEN scan.commas + 1
                                 ELSE 0),
                     WithArguments(db, Tail(fullnames),
                                   SubSeq(remaining_text, loc + 1,
                                          Len(remaining_text))))
             Located(loc) ==
                 IF loc >= Len(remaining_text)
                 THEN [result |-> <<>>,
                       raised |-> Exception("IndexError", <<>>)]
                 ELSE IF remaining_text[loc + 1] # "("
                 THEN [result |-> <<>>,
                       raised |-> Exception("AssertionError", <<>>)]
                 ELSE Scanned(loc, ScanArguments(remaining_text, loc, 1, 0))
         IN  Located(Find(remaining_text, fullname \o <<"(">>) - 1
                     + Len(fullname))

\* the second loop of find_dependencies: every object of the name
RECURSIVE WithoutArguments(_, _)
WithoutArguments(db, names) ==
    IF names = <<>> THEN <<>>
    ELSE GetAll(db, Head(names)[1], Head(names)[2])
         \o WithoutArguments(db, Tail(names))

\* PgDatabase.find_dependencies
find_dependencies(db, txt) ==
    LET Then(r) ==
            IF r.raised # NoError THEN r
            ELSE [result |-> r.result
                             \o WithoutArguments(
                                    db, FindAllWithoutArguments(txt, 1)),
                  raised |-> NoError]
    IN  Then(WithArguments(db, FindAllWithArguments(txt, 1), txt))

\* a call of find_dependencies on the database loaded
FindDependencies ==
    /\ pc = "call"
    /\ call.function = "find_dependencies"
    /\ returned' = find_dependencies([heap |-> heap, contents |-> contents,
                                      schemas |-> schemas], call.text)
    /\ pc' = "returned"
    /\ UNCHANGED <<heap, contents, error, call>>
    /\ UNCHANGED diffvars
    /\ UNCHANGED dbvars

-----------------------------------------------------------------------------
(* Specification SpecCall: one call of analyze_type, of PgTable.load with  *)
(* to_json, or of find_dependencies, in a process that has loaded a        *)
(* database of three objects.                                              *)

\* the document of that database: f(int) and f(int, text) of schema shop,
\* and table shop.a
CallDocument ==
    <<FunctionData(shop, NameF, <<int>>, int, <<"1">>),
      FunctionData(shop, NameF, <<int, text>>, int, <<"1">>),
      TableData(StrVal(shop), NameA, <<>>, <<>>, None)>>

\* the pieces a text is written with: the opening of a call of shop.f, the
\* qualified name shop.a, and single characters
Tokens ==
    {shop \o <<".", "f", "(">>, shop \o <<".", "a">>,
     <<")">>, <<",">>, <<" ">>, <<"1">>}

\* the texts of at most n tokens
RECURSIVE TextsUpTo(_)
TextsUpTo(n) ==
    IF n = 0 THEN {<<>>}
    ELSE LET shorter == TextsUpTo(n - 1)
         IN  shorter \cup {t \o token : t \in shorter, token \in Tokens}

\* the calls: the function and its arguments
Calls ==
    {[function |-> "analyze_type", tgtype |-> n] : n \in 0..MaxTgtype}
    \cup {[function |-> "to_json", data |-> d] :
             d \in {x \in DocMenu : x.kind = "table"}}
    \cup {[function |-> "find_dependencies", text |-> t] :
             t \in TextsUpTo(MaxTokens)}

InitCall ==
    /\ call \in Calls
    /\ returned = None
    /\ pc = "call"
    /\ LET Loaded(r) ==
               /\ heap = r.db.heap
               /\ contents = r.db.contents
               /\ schemas = r.db.schemas
               /\ objects = r.result.objects
       IN  Loaded(Load(<<>>, <<>>, CallDocument))
    /\ doc = <<>>
    /\ loaded = <<>>
    /\ to_include = <<>>
    /\ included = <<>>
    /\ rule = "none"
    /\ run = 1
    /\ first = <<>>
    /\ error = NoError
    /\ ref = None
    /\ results = <<>>
    /\ NoDiff

NextCall ==
    \/ AnalyzeType
    \/ TableRoundTrip
    \/ FindDependencies

SpecCall == InitCall /\ [][NextCall]_vars

-----------------------------------------------------------------------------
(* Properties of the single calls *)

\* the call of that function has returned or raised
Called(function) == pc = "returned" /\ call.function = function

C24_RoundTrip ==
    Called("to_json") =>
        /\ returned.raised = NoError
        /\ returned.result.name = call.data.name
        /\ returned.result.schema =
               (IF call.data.schema = None THEN DEFAULT_SCHEMA
                ELSE call.data.schema.str)
        /\ returned.result.columns = call.data.columns
        /\ returned.result.foreign_keys = call.data.foreign_keys

\* the opening parenthesis at p follows a qualified name; s1..s2 is the
\* schema name and n1..n2 the name, each with an optional double quote
\* behind it
QualifiedCall(txt, p, s1, s2, n1, n2) ==
    /\ txt[p] = "("
    /\ s1 <= s2 /\ n1 <= n2
    /\ \A k \in (s1..s2) \cup (n1..n2) : txt[k] \in WordChars
    /\ s1 > 1 => txt[s1 - 1] \notin WordChars
    /\ txt[n1 - 1] = "."
    /\ \/ s2 = n1 - 2
       \/ s2 = n1 - 3 /\ txt[n1 - 2] = "\""
    /\ \/ n2 = p - 1
       \/ n2 = p - 2 /\ txt[p - 1] = "\""

\* the opening parentheses of the qualified calls of a text
CallSites(txt) ==
    {p \in DOMAIN txt :
        \E s1 \in 1..p, s2 \in 1..p, n1 \in 2..p, n2 \in 1..p :
            QualifiedCall(txt, p, s1, s2, n1, n2)}

\* the nesting depth at k of the parenthesis opened at p
Depth(txt, p, k) ==
    Cardinality({m \in p..k : txt[m] = "("})
    - Cardinality({m \in p..k : txt[m] = ")"})

\* the parenthesis opened at p is closed
Closed(txt, p) == \E c \in p..Len(txt) : Depth(txt, p, c) = 0

\* the number of top-level arguments of the call opened at p
Arity(txt, p) ==
    LET c == CHOOSE k \in p..Len(txt) :
                 Depth(txt, p, k) = 0
                 /\ \A m \in p..(k-1) : Depth(txt, p, m) # 0
    IN  IF \A k \in (p+1)..(c-1) : txt[k] \in {" ", "\n", "\t"} THEN 0
        ELSE 1 + Cardinality({k \in p..c :
                                 txt[k] = "," /\ Depth(txt, p, k) = 1})

\* the objects of the schema and name of the call opened at p that take as
\* many arguments as the call has
Candidates(txt, p) ==
    LET q == CHOOSE q \in [s1 : 1..p, s2 : 1..p, n1 : 2..p, n2 : 1..p] :
                 QualifiedCall(txt, p, q.s1, q.s2, q.n1, q.n2)
        owner == {i \in DOMAIN heap :
                     /\ heap[i].kind = "schema"
                     /\ heap[i].name = SubSeq(txt, q.s1, q.s2)
                     /\ <<heap[i].name, i>> \in schemas}
    IN  SelectSeq([i \in DOMAIN heap |-> i],
                  LAMBDA i : /\ heap[i].schema \in owner
                             /\ heap[i].kind \in {"function", "table"}
                             /\ heap[i].name = SubSeq(txt, q.n1, q.n2)
                             /\ Len(heap[i].arguments) = Arity(txt, p))

\* the candidates of each call site of the sequence, in turn
RECURSIVE CallDependencies(_, _)
CallDependencies(txt, sites) ==
    IF sites = <<>> THEN <<>>
    ELSE Candidates(txt, Head(sites)) \o CallDependencies(txt, Tail(sites))

\* C25: for a text whose calls are closed, find_dependencies records for
\* each qualified call, in turn, the objects of that schema and name whose
\* argument count is the number of top-level arguments of the call, and
\* none when no object has that count; the dependencies that follow are
\* those of the qualified names that are not called.
C25_CallDependencies ==
    (Called("find_dependencies")
     /\ \A p \in CallSites(call.text) : Closed(call.text, p)) =>
        /\ returned.raised = NoError
        /\ returned.result =
               CallDependencies(call.text, SortedSeq(CallSites(call.text)))
               \o WithoutArguments(
                      [heap |-> heap, contents |-> contents,
                       schemas |-> schemas],
                      FindAllWithoutArguments(call.text, 1))

\* find_dependencies has returned f(int) alone for shop.f(shop.f()): the
\* outer call has one argument, the inner call none, which no f takes
C25_Witness ==
    /\ Called("find_dependencies")
    /\ call.text = shop \o <<".", "f", "(">> \o shop \o <<".", "f", "(">>
                   \o <<")", ")">>
    /\ Len(returned.result) = 1
    /\ heap[returned.result[1]].kind = "function"
    /\ Len(heap[returned.result[1]].arguments) = 1

\* C29: find_dependencies returns a list for every text and raises nothing.
C29_NeverRaises ==
    Called("find_dependencies") => returned.raised = NoError

============================================================================
